---- MODULE Spec2Model ----
(***************************************************************************)
(* Job queue / worker pipeline of the WYD backend (app/queue_manager.py,   *)
(* app/workers.py, app/core.py).                                           *)
(*                                                                         *)
(* The fast store (Redis) holds one list per (queue type, priority suffix) *)
(* and one "job:<id>" status key per tracked job; the durable log (Kafka)  *)
(* is an append-only sequence of messages.  Every await on a store is a    *)
(* scheduling point, so enqueue and dequeue are modelled as step functions *)
(* over the world, one step per store operation.  Spec interleaves the     *)
(* steps of several producers and consumers; SeqSpec runs each handler to  *)
(* completion as a single action built from the same step functions.       *)
(***************************************************************************)
EXTENDS Integers, Sequences, FiniteSets, TLC

\* ---------------------------------------------------------------- bounds
MaxJobs == 2
MaxBatch == 2
MaxTicks == 2
MaxFaults == 1
MaxCalls == 2
MaxSeqJobs == 3
MaxSeqBatch == 3
MaxFaultOps == 2

\* ------------------------------------------------------- program constants
LOW == 1
NORMAL == 2
HIGH == 3
CRITICAL == 4
LIST_TTL == 86400
JOB_TTL == 3600
DEFAULT_RETRY_COUNT == 3
SOCKET_TIMEOUT == 5

None == -1
NoTTL == -1

Priority == {LOW, NORMAL, HIGH, CRITICAL}

\* The queue types exercised by the model (two of the eight of QueueType).
QueueType == {"notifications", "analytics"}

kafka_topics == [q \in QueueType |->
    IF q = "notifications" THEN "notifications-queue" ELSE "analytics-queue"]

redis_queues == [q \in QueueType |->
    IF q = "notifications" THEN "queue:notifications" ELSE "queue:analytics"]

\* Priority suffixes in the order dequeue visits them.
SuffixesSwapped == <<":high", ":critical", ":normal">>
Suffixes == <<":critical", ":high", ":normal">>

ListKeys == {redis_queues[q] \o Suffixes[i] : q \in QueueType, i \in 1..3}

Producers == {"p1"}
Consumers == {"w1", "w2"}
Updaters == {"u1", "u2"}
Callers == {"route", "worker"}
UserIds == {None, 7}
BatchSizes == 1..MaxBatch
TickSteps == {1, JOB_TTL, LIST_TTL - 1}

\* Inputs of the interleaved specification: one queue type, and the two
\* priorities that enqueue writes to the fast-queue lists.  SeqPriority adds
\* NORMAL, the priority of the log-only path (LOW goes the way of NORMAL).
ConcQueues == {"notifications"}
ConcPriority == {HIGH, CRITICAL}
SeqPriority == {NORMAL, HIGH, CRITICAL}
ConcKeys == {redis_queues[q] \o Suffixes[i] : q \in ConcQueues, i \in 1..3}

VARIABLES REDIS, KAFKA_PRODUCER, redis_lists, redis_ttl, redis_jobs,
          kafka_log, now, enq, deq, delivered, nextId, ticks, faults,
          calls, last, pushlog,
          upd, written, wrk, handled, friendships, fcalls,
          hnd, life, mgr, boot, social, ncache

world_vars == <<REDIS, KAFKA_PRODUCER, redis_lists, redis_ttl, redis_jobs, kafka_log>>
vars == <<REDIS, KAFKA_PRODUCER, redis_lists, redis_ttl, redis_jobs,
          kafka_log, now, enq, deq, delivered, nextId, ticks, faults,
          calls, last, pushlog,
          upd, written, wrk, handled, friendships, fcalls,
          hnd, life, mgr, boot, social, ncache>>

\* The handlers, the lifecycle and the routes around the queue.
sys_vars == <<hnd, life, mgr, boot, social, ncache>>

\* The queue manager, its callers, the worker loop and the friendship table.
queue_vars == <<world_vars, now, enq, deq, delivered, nextId, ticks, faults,
                calls, last, pushlog, upd, written, wrk, handled,
                friendships, fcalls>>
others_hnd == <<life, mgr, boot, social, ncache>>
others_life == <<hnd, boot, social, ncache>>
others_boot == <<hnd, life, mgr, social, ncache>>
others_social == <<hnd, life, mgr, boot, ncache>>
others_ncache == <<hnd, life, mgr, boot, social>>

\* The status callers, the worker loop and the friendship table: left alone
\* by the queue operations.
ext_vars == <<upd, wrk, handled, friendships, fcalls, sys_vars>>

\* ------------------------------------------------------------ serialization
\* json.dumps of a job dict gives a well-formed entry; json.loads gives the
\* dict back, and fails (JSONDecodeError) on an entry that is not JSON.
Dumps(job) == [wf |-> TRUE, body |-> job]
Decodable(entry) == entry.wf
Loads(entry) == entry.body

\* str(x) of the partition key.
Str(x) == IF x = None THEN "None" ELSE IF x = 0 THEN "0" ELSE "7"

\* ------------------------------------------------------------------- world
World == [REDIS |-> REDIS, KAFKA_PRODUCER |-> KAFKA_PRODUCER,
          lists |-> redis_lists, ttl |-> redis_ttl,
          jobs |-> redis_jobs, log |-> kafka_log]

SetWorld(w) ==
    /\ REDIS' = w.REDIS
    /\ KAFKA_PRODUCER' = w.KAFKA_PRODUCER
    /\ redis_lists' = w.lists
    /\ redis_ttl' = w.ttl
    /\ redis_jobs' = w.jobs
    /\ kafka_log' = w.log

\* core.get_redis / core.get_kafka_producer: a missing handle is looked up
\* again by a fresh startup, which may or may not connect this time.
get_redis(w, conn) == w.REDIS \/ conn
get_kafka_producer(w, conn) == w.KAFKA_PRODUCER \/ conn

\* Redis primitives on the list keys.
LPushRight(l, e) == Append(l, e)
LPush(l, e) == <<e>> \o l

RPopKeep(l) == l
RPop(l) == SubSeq(l, 1, Len(l) - 1)

\* ----------------------------------------------------------------- enqueue
IdleEnq == [pc |-> "idle", q |-> "notifications", priority |-> NORMAL,
            job |-> [id |-> 0], key |-> ""]

NewJob(id, q, priority, user_id, t) ==
    [id |-> id, type |-> q, priority |-> priority, created_at |-> t,
     retry_count |-> DEFAULT_RETRY_COUNT, user_id |-> user_id, status |-> "pending"]

\* High priority jobs go to Redis for immediate processing.
FastPathAll(priority) == TRUE
FastPath(priority) == priority \in {HIGH, CRITICAL}

\* A list name that sends HIGH jobs to the ":normal" list.
QueueNameHighAsNormal(q, priority) ==
    redis_queues[q] \o (IF priority = CRITICAL THEN ":critical" ELSE ":normal")

QueueName(q, priority) ==
    redis_queues[q] \o (IF priority = CRITICAL THEN ":critical"
                        ELSE IF priority = HIGH THEN ":high" ELSE ":normal")

EnqCall(id, q, priority, user_id, t) ==
    [pc |-> IF FastPath(priority) THEN "lpush" ELSE "send",
     q |-> q, priority |-> priority,
     job |-> NewJob(id, q, priority, user_id, t),
     key |-> QueueName(q, priority)]

\* "except Exception as e: logger.error(...); raise": the error of a store
\* operation leaves enqueue as an exception, and no job id is returned.
EnqRaiseSwallowed(c) == [c EXCEPT !.pc = "returned"]
EnqRaise(c) == [c EXCEPT !.pc = "raised"]

\* _enqueue_redis, first half: get_redis, then lpush.
EnqLPush(c, w, ok, conn) ==
    LET up == get_redis(w, conn)
        w1 == [w EXCEPT !.REDIS = up]
    IN  IF ~up THEN [call |-> [c EXCEPT !.pc = "send"], w |-> w1]
        ELSE IF ~ok THEN [call |-> EnqRaise(c), w |-> w1]
        ELSE [call |-> [c EXCEPT !.pc = "expire"],
              w |-> [w1 EXCEPT !.lists[c.key] = LPush(@, Dumps(c.job))]]

\* _enqueue_redis, second half: expire(queue_name, 86400); a key that does
\* not exist is left alone.
EnqExpire(c, w, ok, t) ==
    IF ~ok THEN [call |-> EnqRaise(c), w |-> w]
    ELSE [call |-> [c EXCEPT !.pc = "send"],
          w |-> IF w.lists[c.key] = <<>> THEN w
                ELSE [w EXCEPT !.ttl[c.key] = t + LIST_TTL]]

\* _enqueue_kafka
EnqSendStrict(c, w, ok, conn) ==
    LET up == get_kafka_producer(w, conn)
        w1 == [w EXCEPT !.KAFKA_PRODUCER = up]
    IN  IF ~up \/ ~ok THEN [call |-> EnqRaise(c), w |-> w1]
        ELSE [call |-> [c EXCEPT !.pc = "setex"],
              w |-> [w1 EXCEPT !.log = Append(@,
                        [topic |-> kafka_topics[c.q],
                         key |-> Str(c.job.user_id),
                         value |-> Dumps(c.job)])]]

EnqSend(c, w, ok, conn) ==
    LET up == get_kafka_producer(w, conn)
        w1 == [w EXCEPT !.KAFKA_PRODUCER = up]
    IN  IF ~up THEN [call |-> [c EXCEPT !.pc = "setex"], w |-> w1]
        ELSE IF ~ok THEN [call |-> EnqRaise(c), w |-> w1]
        ELSE [call |-> [c EXCEPT !.pc = "setex"],
              w |-> [w1 EXCEPT !.log = Append(@,
                        [topic |-> kafka_topics[c.q],
                         key |-> Str(c.job.user_id),
                         value |-> Dumps(c.job)])]]

\* _track_job
EnqSetexFastOnly(c, w, ok, conn, t) ==
    LET up == get_redis(w, conn)
        w1 == [w EXCEPT !.REDIS = up]
    IN  IF ~up \/ ~FastPath(c.priority)
        THEN [call |-> [c EXCEPT !.pc = "returned"], w |-> w1]
        ELSE IF ~ok THEN [call |-> EnqRaise(c), w |-> w1]
        ELSE [call |-> [c EXCEPT !.pc = "returned"],
              w |-> [w1 EXCEPT !.jobs = [i \in DOMAIN @ \cup {c.job.id} |->
                        IF i = c.job.id
                        THEN [val |-> Dumps(c.job), exp |-> t + JOB_TTL]
                        ELSE @[i]]]]

EnqSetex(c, w, ok, conn, t) ==
    LET up == get_redis(w, conn)
        w1 == [w EXCEPT !.REDIS = up]
    IN  IF ~up THEN [call |-> [c EXCEPT !.pc = "returned"], w |-> w1]
        ELSE IF ~ok THEN [call |-> EnqRaise(c), w |-> w1]
        ELSE [call |-> [c EXCEPT !.pc = "returned"],
              w |-> [w1 EXCEPT !.jobs = [i \in DOMAIN @ \cup {c.job.id} |->
                        IF i = c.job.id
                        THEN [val |-> Dumps(c.job), exp |-> t + JOB_TTL]
                        ELSE @[i]]]]

EnqStep(c, w, ok, conn, t) ==
    CASE c.pc = "lpush" -> EnqLPush(c, w, ok, conn)
      [] c.pc = "expire" -> EnqExpire(c, w, ok, t)
      [] c.pc = "send" -> EnqSend(c, w, ok, conn)
      [] c.pc = "setex" -> EnqSetex(c, w, ok, conn, t)

EnqRunning(c) == c.pc \in {"lpush", "expire", "send", "setex"}

\* ----------------------------------------------------------------- dequeue
IdleDeq == [pc |-> "idle", q |-> "notifications", batch |-> 1, tier |-> 1,
            i |-> 0, jobs |-> <<>>, src |-> <<>>, pops |-> 0]

BatchFullLate(jobs, batch) == Len(jobs) > batch
BatchFull(jobs, batch) == Len(jobs) >= batch

\* "return jobs": the loop variables are gone.
Finish(c) == [c EXCEPT !.pc = "done", !.tier = 1, !.i = 0]

DeqCallNoGuard(q, batch, w, conn) ==
    LET up == get_redis(w, conn)
    IN  [call |-> [IdleDeq EXCEPT !.pc = IF up THEN "pop" ELSE "raised",
                                  !.q = q, !.batch = batch],
         w |-> [w EXCEPT !.REDIS = up]]

DeqCall(q, batch, w, conn) ==
    LET up == get_redis(w, conn)
    IN  [call |-> [IdleDeq EXCEPT !.pc = IF up THEN "pop" ELSE "done",
                                  !.q = q, !.batch = batch],
         w |-> [w EXCEPT !.REDIS = up]]

\* One iteration of the inner loop: rpop, decode, append, and the two
\* "len(jobs) >= batch_size" tests that follow it.
DeqPop(c, w, ok) ==
    LET key == redis_queues[c.q] \o Suffixes[c.tier]
        l == w.lists[key]
        got == l # <<>>
        entry == l[Len(l)]
        rest == IF got THEN RPop(l) ELSE l
        take == got /\ Decodable(entry)
        jobs == IF take THEN Append(c.jobs, Loads(entry)) ELSE c.jobs
        src == IF take THEN Append(c.src, Suffixes[c.tier]) ELSE c.src
        w1 == [w EXCEPT !.lists[key] = rest,
                        !.ttl[key] = IF rest = <<>> THEN NoTTL ELSE @]
        c1 == [c EXCEPT !.jobs = jobs, !.src = src, !.pops = @ + 1]
    IN  IF ~ok THEN [call |-> [c EXCEPT !.pc = "raised"], w |-> w]
        ELSE IF BatchFull(jobs, c.batch)
             THEN [call |-> Finish(c1), w |-> w1]
        ELSE IF c.i + 1 < c.batch
             THEN [call |-> [c1 EXCEPT !.i = @ + 1], w |-> w1]
        ELSE IF c.tier < 3
             THEN [call |-> [c1 EXCEPT !.tier = @ + 1, !.i = 0], w |-> w1]
        ELSE [call |-> Finish(c1), w |-> w1]

\* ------------------------------------------------------------ job status
\* The result argument of update_job_status: None (mark_job_completed passes
\* no result), a result dict, or the {"error": ...} dict of mark_job_failed.
NoResult == "None"
Results == {NoResult, "result", "error"}

\* "if result:" - None is falsy, the dicts passed are not empty.
Truthy(result) == result # NoResult

\* The status updates workers make: mark_job_completed(job_id) and
\* mark_job_failed(job_id, error).
UpdInputs == {<<"completed", NoResult>>, <<"failed", "error">>}

\* The store operations of update_job_status that may be rejected.
UpdFailPoints == {"none", "get", "setex"}

\* What get_job_status returns for a key that is not there.
NoStatus == [id |-> None]

\* dict assignment d[k] = v
SetKey(d, k, v) == [x \in DOMAIN d \cup {k} |-> IF x = k THEN v ELSE d[x]]

\* get_job_status: get_redis, GET job:<id>, json.loads.
GetJobStatus(id, w, ok, conn) ==
    LET up == get_redis(w, conn)
        w1 == [w EXCEPT !.REDIS = up]
    IN  IF ~up THEN [ret |-> NoStatus, raised |-> FALSE, w |-> w1]
        ELSE IF ~ok THEN [ret |-> NoStatus, raised |-> TRUE, w |-> w1]
        ELSE IF id \in DOMAIN w.jobs /\ Decodable(w.jobs[id].val)
             THEN [ret |-> Loads(w.jobs[id].val), raised |-> FALSE, w |-> w1]
        ELSE [ret |-> NoStatus, raised |-> FALSE, w |-> w1]

IdleUpd == [pc |-> "idle", id |-> 0, status |-> "pending",
            result |-> NoResult, data |-> NoStatus]

\* update_job_status(job_id, status, result), up to its first await.
UpdCall(id, status, result, w, conn) ==
    LET up == get_redis(w, conn)
    IN  [call |-> [IdleUpd EXCEPT !.pc = IF up THEN "get" ELSE "returned",
                                  !.id = id, !.status = status,
                                  !.result = result],
         w |-> [w EXCEPT !.REDIS = up]]

\* job_data["status"] = status; job_data["updated_at"] = now;
\* if result: job_data["result"] = result
UpdRecord(job, status, result, t) ==
    LET j == SetKey(SetKey(job, "status", status), "updated_at", t)
    IN  IF Truthy(result) THEN SetKey(j, "result", result) ELSE j

\* "job_data = await self.get_job_status(job_id); if job_data:": the record
\* is read and, when there, changed in memory.
UpdGetBlind(c, w, ok, t) ==
    LET r == GetJobStatus(c.id, w, ok, FALSE)
    IN  IF r.raised THEN [call |-> [c EXCEPT !.pc = "raised"], w |-> r.w]
        ELSE [call |-> [c EXCEPT !.pc = "setex",
                          !.data = UpdRecord(
                              IF r.ret = NoStatus THEN [id |-> c.id] ELSE r.ret,
                              c.status, c.result, t)],
              w |-> r.w]

UpdGet(c, w, ok, t) ==
    LET r == GetJobStatus(c.id, w, ok, FALSE)
    IN  IF r.raised THEN [call |-> [c EXCEPT !.pc = "raised"], w |-> r.w]
        ELSE IF r.ret = NoStatus
             THEN [call |-> [c EXCEPT !.pc = "returned"], w |-> r.w]
        ELSE [call |-> [c EXCEPT !.pc = "setex",
                          !.data = UpdRecord(r.ret, c.status, c.result, t)],
              w |-> r.w]

\* setex(f"job:{job_id}", 3600, json.dumps(job_data))
UpdSetex(c, w, ok, t) ==
    IF ~ok THEN [call |-> [c EXCEPT !.pc = "raised"], w |-> w]
    ELSE [call |-> [c EXCEPT !.pc = "returned"],
          w |-> [w EXCEPT !.jobs = [i \in DOMAIN @ \cup {c.id} |->
                    IF i = c.id
                    THEN [val |-> Dumps(c.data), exp |-> t + JOB_TTL]
                    ELSE @[i]]]]

UpdStep(c, w, ok, t) ==
    IF c.pc = "get" THEN UpdGet(c, w, ok, t) ELSE UpdSetex(c, w, ok, t)

UpdRunning(c) == c.pc \in {"get", "setex"}

\* Time of the last write of each status record: the keys of post that are
\* new or differ from pre were written at t.
Touch(pre, post, t) ==
    [i \in DOMAIN written \cup DOMAIN post.jobs |->
        IF i \in DOMAIN post.jobs
           /\ (i \notin DOMAIN pre.jobs \/ post.jobs[i] # pre.jobs[i])
        THEN t ELSE written[i]]

\* ------------------------------------------------------------------ worker
\* BaseWorker: running flag, the tasks of the batch being processed, and the
\* two counters.
IdleWorker == [pc |-> "stopped", running |-> FALSE, tasks |-> <<>>,
               processed_count |-> 0, error_count |-> 0]

\* The worker of the model: queue type and batch size given to __init__.
queue_type == "notifications"
batch_size == MaxBatch

\* "tasks = [self.process_job(job) for job in jobs]"
NewTask(job) == [job |-> job, pc |-> "handler", upd |-> IdleUpd]

\* mark_job_completed / mark_job_failed: the update_job_status call is made,
\* and the counter is incremented once it has returned.
MarkCall(wk, i, status, result, w) ==
    LET r == UpdCall(wk.tasks[i].job.id, status, result, w, FALSE)
    IN  [wrk |-> [wk EXCEPT !.tasks[i].pc = "mark", !.tasks[i].upd = r.call],
         w |-> r.w]

Settle(wk, i) ==
    IF wk.tasks[i].upd.pc # "returned" THEN wk
    ELSE IF wk.tasks[i].upd.status = "completed"
         THEN [wk EXCEPT !.tasks[i].pc = "done", !.processed_count = @ + 1]
         ELSE [wk EXCEPT !.tasks[i].pc = "done", !.error_count = @ + 1]

\* process_job, the handler body ran to its end: "await
\* self.mark_job_completed(job_id)".
TaskOk(wk, i, w) == MarkCall(wk, i, "completed", NoResult, w)

\* process_job, the handler body raised: "except Exception as e: ...
\* await self.mark_job_failed(job_id, str(e))".  The job is not enqueued
\* again and the other tasks of the batch are not touched.
TaskFailAbortsBatch(wk, i, w) ==
    LET r == MarkCall(wk, i, "failed", "error", w)
    IN  [wrk |-> [r.wrk EXCEPT !.tasks = [n \in DOMAIN @ |->
                     IF n = i THEN @[n] ELSE [@[n] EXCEPT !.pc = "done"]]],
         w |-> r.w]

TaskFailRequeue(wk, i, w) ==
    LET r == MarkCall(wk, i, "failed", "error", w)
        job == wk.tasks[i].job
        key == QueueName(job.type, job.priority)
    IN  [wrk |-> r.wrk,
         w |-> IF job.retry_count > 0
               THEN [r.w EXCEPT !.lists[key] = LPush(@, Dumps(job))]
               ELSE r.w]

TaskFail(wk, i, w) == MarkCall(wk, i, "failed", "error", w)

\* One step of task i of the batch: the handler body, which raises or not,
\* or the next store operation of its status update.
ProcessStep(wk, i, raises, w, t) ==
    IF wk.tasks[i].pc = "handler"
    THEN LET r == IF raises THEN TaskFail(wk, i, w) ELSE TaskOk(wk, i, w)
         IN  [wrk |-> Settle(r.wrk, i), w |-> r.w]
    ELSE LET r == UpdStep(wk.tasks[i].upd, w, TRUE, t)
         IN  [wrk |-> Settle([wk EXCEPT !.tasks[i].upd = r.call], i), w |-> r.w]

\* -------------------------------------------------------------- friendship
\* The users both callers may name; all of them exist in the users table.
Users == {1, 2}

NoRow == [id |-> None]

IdleFriend ==
    [pc |-> "idle", user_a |-> 0, user_b |-> 0, a |-> 0, b |-> 0,
     integrity_error |-> FALSE, ret |-> NoRow]

\* The pair as given, without ordering.
Unsorted(user_a, user_b) == <<user_a, user_b>>

\* a, b = sorted([user_a, user_b])
Sorted(user_a, user_b) ==
    IF user_a <= user_b THEN <<user_a, user_b>> ELSE <<user_b, user_a>>

\* The committed rows of the friendships table with the given columns.
RowsOf(rows, a, b) ==
    {i \in DOMAIN rows : rows[i].user_id = a /\ rows[i].friend_id = b}

\* select(Friendship).where(user_id == a, friend_id == b) ... .first()
SelectFirst(rows, a, b) ==
    IF RowsOf(rows, a, b) = {} THEN NoRow
    ELSE rows[CHOOSE i \in RowsOf(rows, a, b) :
                 \A j \in RowsOf(rows, a, b) : i <= j]

\* An insert of (a, b) waits while another session holds an uncommitted
\* insert of the same pair under uix_friend_pair.
InsertBlocked(c, others) ==
    \E o \in others : o.pc = "commit" /\ o.a = c.a /\ o.b = c.b

FriendEnter(user_a, user_b) ==
    LET s == Sorted(user_a, user_b)
    IN  [IdleFriend EXCEPT !.pc = "flush", !.user_a = user_a,
                           !.user_b = user_b, !.a = s[1], !.b = s[2]]

\* session.add(f); the INSERT sent by session.commit(): uix_friend_pair
\* rejects a pair that is already committed, and the except clause takes it.
FriendFlush(c, rows) ==
    IF RowsOf(rows, c.a, c.b) # {}
    THEN [call |-> [c EXCEPT !.pc = "rollback", !.integrity_error = TRUE],
          rows |-> rows]
    ELSE [call |-> [c EXCEPT !.pc = "commit"], rows |-> rows]

\* The transaction commits: the row is in the table.
FriendCommit(c, rows) ==
    [call |-> [c EXCEPT !.pc = "refresh"],
     rows |-> Append(rows, [id |-> Len(rows) + 1, user_id |-> c.a,
                            friend_id |-> c.b])]

\* await session.refresh(f); return f
FriendRefresh(c, rows) ==
    [call |-> [c EXCEPT !.pc = "returned", !.ret = SelectFirst(rows, c.a, c.b)],
     rows |-> rows]

\* await session.rollback()
FriendRollback(c, rows) ==
    [call |-> [c EXCEPT !.pc = "select"], rows |-> rows]

\* return res.scalars().first()
FriendSelect(c, rows) ==
    [call |-> [c EXCEPT !.pc = "returned", !.ret = SelectFirst(rows, c.a, c.b)],
     rows |-> rows]

create_friendship_step(c, rows) ==
    CASE c.pc = "flush"    -> FriendFlush(c, rows)
      [] c.pc = "commit"   -> FriendCommit(c, rows)
      [] c.pc = "refresh"  -> FriendRefresh(c, rows)
      [] c.pc = "rollback" -> FriendRollback(c, rows)
      [] c.pc = "select"   -> FriendSelect(c, rows)

FriendRunning(c) == c.pc \in {"flush", "commit", "refresh", "rollback", "select"}

\* ---------------------------------------------------------------- handlers
\* The names bound at import by "from .core import REDIS" in cache.py and by
\* "from .core import KAFKA_PRODUCER" in kafka_producer.py: the values core
\* holds when it is first loaded.  The startup functions assign core's own
\* globals, never these two names.
cache_REDIS == FALSE
producer_KAFKA_PRODUCER == FALSE

HandlerKinds == {"friend_requests", "messages", "user_activity", "analytics"}
HandlerActions == {"send_request", "accept_request", "other"}
Slots == 1..MaxBatch

IdleHandler ==
    [s \in Slots |-> [pc |-> "idle", kind |-> "none", action |-> "none",
                      found |-> FALSE, ops |-> <<>>, mark |-> "none"]]

\* The collaborator calls process_job makes, in order.  found: get_user
\* returned a user (for analytics: the event names a user).
HandlerOps(kind, action, found) ==
    CASE kind = "friend_requests" /\ action = "send_request" ->
            <<"get_user">> \o
            (IF found THEN <<"create_notification", "cache_delete", "publish">>
                      ELSE <<>>)
      [] kind = "friend_requests" /\ action = "accept_request" ->
            <<"create_friendship", "get_user">> \o
            (IF found THEN <<"create_notification">> ELSE <<>>) \o
            <<"cache_delete", "cache_delete", "publish">>
      [] kind = "friend_requests" /\ action = "other" -> <<>>
      [] kind = "messages" ->
            <<"get_user">> \o
            (IF found THEN <<"create_notification_typed">> ELSE <<>>) \o
            <<"cache_delete", "publish", "publish">>
      [] kind = "user_activity" -> <<"cache_set">>
      [] kind = "analytics" ->
            <<"cache_increment", "cache_increment">> \o
            (IF found THEN <<"cache_increment">> ELSE <<>>)

\* publish raises RuntimeError for an absent producer.
PublishRaises(producer) == ~producer

\* Whether a collaborator call raises into the handler.  The cache operations
\* return their neutral value for an absent store and catch every store
\* error; the database calls succeed; create_notification takes no
\* notification_type argument (TypeError).
OpRaises(op, conn, producer) ==
    CASE op = "publish" -> PublishRaises(producer)
      [] op = "create_notification_typed" -> TRUE
      [] op \in {"cache_delete", "cache_set", "cache_increment"} -> FALSE
      [] OTHER -> FALSE

HandlerEnter(kind, action, found) ==
    [pc |-> "running", kind |-> kind, action |-> action, found |-> found,
     ops |-> HandlerOps(kind, action, found), mark |-> "none"]

\* The next collaborator call of process_job; an exception ends the body
\* with mark_job_failed, the end of the calls with mark_job_completed.
HandlerStep(h) ==
    IF h.ops = <<>>
    THEN [h EXCEPT !.pc = "done", !.mark = "completed"]
    ELSE IF OpRaises(Head(h.ops), cache_REDIS, producer_KAFKA_PRODUCER)
         THEN [h EXCEPT !.pc = "done", !.mark = "failed"]
         ELSE [h EXCEPT !.ops = Tail(h.ops)]

\* --------------------------------------------------------------- lifecycle
\* Two of the workers of WorkerManager.workers, each with the task that
\* start_all creates for it.  pc is where the task is suspended:
\* "unscheduled" (created, its coroutine not yet run), "dequeue", "sleep",
\* "backoff" (the sleep of the except branch), "gather", "finished".
LifeWorkers == {"friend_requests", "messages"}
LifeJobs == 0..MaxBatch

NoTask == [pc |-> "none", running |-> FALSE, cancel |-> FALSE, children |-> <<>>]
IdleManager ==
    [pc |-> "idle", at_stop |-> [w \in LifeWorkers |-> "none"], late |-> FALSE]

Terminated(l) == l.pc \in {"none", "finished"}

\* "while self.running:" at the top of the loop: the next dequeue, or the
\* end of start().
LoopTop(l) ==
    IF l.running THEN [l EXCEPT !.pc = "dequeue", !.children = <<>>]
    ELSE [l EXCEPT !.pc = "finished", !.children = <<>>]

\* CancelledError raised at the await where the task is suspended; it is not
\* an Exception, so neither "except Exception" catches it and the task ends.
Cancelled(l) == [l EXCEPT !.pc = "finished", !.cancel = FALSE, !.children = <<>>]

\* The first step of the task: start() up to its first await.  A task
\* cancelled before it ran never executes the body.
LifeBeginStep(l) ==
    IF l.cancel THEN Cancelled(l)
    ELSE LoopTop([l EXCEPT !.running = TRUE])

\* dequeue returns n jobs, or raises.
LifeDequeueStep(l, n, raises) ==
    IF l.cancel THEN Cancelled(l)
    ELSE IF raises THEN [l EXCEPT !.pc = "backoff"]
    ELSE IF n = 0 THEN [l EXCEPT !.pc = "sleep"]
    ELSE [l EXCEPT !.pc = "gather", !.children = [i \in 1..n |-> "handler"]]

\* asyncio.sleep(self.delay) ends.
LifeWakeStep(l) == IF l.cancel THEN Cancelled(l) ELSE LoopTop(l)

\* A process_job of the batch: its handler, then its status update.  A
\* cancelled gather cancels its children, which end at their await.
LifeChildStep(l, i) ==
    IF l.cancel THEN [l EXCEPT !.children[i] = "done"]
    ELSE [l EXCEPT !.children[i] = IF @ = "handler" THEN "update" ELSE "done"]

\* gather returns when every child is done; a cancelled gather raises
\* CancelledError then.
LifeGatherStep(l) == IF l.cancel THEN Cancelled(l) ELSE LoopTop(l)

\* task.cancel(): a finished task is left alone.
Cancel(l) == IF Terminated(l) THEN l ELSE [l EXCEPT !.cancel = TRUE]

\* worker.stop()
Stop(l) == [l EXCEPT !.running = FALSE]

\* A stop_all that does not wait for the tasks.
GatheredAtOnce(ls) == TRUE

\* "await asyncio.gather(*self.tasks, return_exceptions=True)" of stop_all
\* returns when every task has ended.
Gathered(ls) == \A w \in LifeWorkers : Terminated(ls[w])

\* Whether a step of a worker sends a dequeue or a status update to the store.
Issues(before, after) ==
    \/ after.pc = "dequeue" /\ before.pc # "dequeue"
    \/ \E i \in DOMAIN after.children :
          after.children[i] = "update" /\ i \in DOMAIN before.children
          /\ before.children[i] = "handler"

\* ------------------------------------------------------------------ startup
\* redis_startup as run by the coroutines that call it: main's startup hook
\* and every get_redis that finds the client not ready.  handle is the
\* module global (REDIS): "None" or the caller whose client it holds; ready
\* is the flag (_redis_ready).  kafka_startup and mongo_startup have the same
\* shape.
Booters == {"b1", "b2"}
max_retries == 3
NoHandle == "None"

IdleBooter == [pc |-> "idle", attempt |-> 0, ok |-> FALSE,
               ret |-> [handle |-> NoHandle, ready |-> FALSE]]
IdleBoot == [handle |-> NoHandle, ready |-> FALSE,
             st |-> [b \in Booters |-> IdleBooter]]

\* get_redis(): "if not _redis_ready or REDIS is None"
NeedsStartup(bt) == ~bt.ready \/ bt.handle = NoHandle

\* The function returns; what the globals hold at that moment is kept.
BootReturn(bt, b, ok) ==
    [bt EXCEPT !.st[b].pc = "returned", !.st[b].ok = ok,
               !.st[b].ret = [handle |-> bt.handle, ready |-> bt.ready]]

\* "for attempt in range(max_retries):" entered with attempt 0.
BootEnter(bt, b) ==
    [bt EXCEPT !.st[b] = [IdleBooter EXCEPT !.pc = "connect"]]

\* "REDIS = Redis.from_url(...)" and the ping is sent.
BootConnect(bt, b) ==
    [bt EXCEPT !.handle = b, !.st[b].pc = "ping"]

\* The ping answers: "_redis_ready = True; break".
BootPingOk(bt, b) ==
    BootReturn([bt EXCEPT !.ready = TRUE], b, TRUE)

\* The ping raises: "if REDIS: ... await REDIS.close()".
BootPingFails(bt, b) ==
    IF bt.handle # NoHandle THEN [bt EXCEPT !.st[b].pc = "closing"]
    ELSE [bt EXCEPT !.st[b].pc = "reset"]

\* "REDIS = None; _redis_ready = False", then the sleep before the next
\* attempt, or the end of the loop after the last one.
BootReset(bt, b) ==
    LET cleared == [bt EXCEPT !.handle = NoHandle, !.ready = FALSE]
    IN  IF bt.st[b].attempt < max_retries - 1
        THEN [cleared EXCEPT !.st[b].pc = "sleep"]
        ELSE BootReturn(cleared, b, FALSE)

\* The sleep ends and the next attempt begins.
BootRetry(bt, b) ==
    [bt EXCEPT !.st[b].pc = "connect", !.st[b].attempt = @ + 1]

BootStepOf(bt, b, answers) ==
    CASE bt.st[b].pc = "connect" -> BootConnect(bt, b)
      [] bt.st[b].pc = "ping" -> IF answers THEN BootPingOk(bt, b)
                                 ELSE BootPingFails(bt, b)
      [] bt.st[b].pc \in {"closing", "reset"} -> BootReset(bt, b)
      [] bt.st[b].pc = "sleep" -> BootRetry(bt, b)

BootRunning(bt, b) == bt.st[b].pc \in {"connect", "ping", "closing", "reset", "sleep"}

\* ----------------------------------------------------------- accept route
\* The friend_requests table, the jobs the routes have enqueued (queue type,
\* priority, action or activity), and the last call of the accept route with
\* the tables before and after it.
AuthUsers == Users
NoRequest == [id |-> None]
IdleSocial == [reqs |-> <<>>, enqueued |-> <<>>, last |-> [op |-> "none"]]

\* crud.send_friend_request: a new row, status pending (the column default).
send_friend_request(reqs, from_user, to_user) ==
    Append(reqs, [id |-> Len(reqs) + 1, from_user |-> from_user,
                  to_user |-> to_user, status |-> "pending"])

\* crud.accept_friend_request(request_id): None for an unknown id; otherwise
\* the row is set to accepted, committed and returned.
accept_friend_request(reqs, request_id) ==
    IF request_id \notin DOMAIN reqs THEN [fr |-> NoRequest, reqs |-> reqs]
    ELSE LET fr == [reqs[request_id] EXCEPT !.status = "accepted"]
         IN  [fr |-> fr, reqs |-> [reqs EXCEPT ![request_id] = fr]]

\* crud.are_friends: a row for the sorted pair exists.
are_friends(rows, user_a, user_b) ==
    LET p == Sorted(user_a, user_b) IN RowsOf(rows, p[1], p[2]) # {}

\* create_friendship run to its return by one caller.
RECURSIVE RunFriend(_, _)
RunFriend(c, rows) ==
    IF ~FriendRunning(c) THEN rows
    ELSE LET r == create_friendship_step(c, rows)
         IN  RunFriend(r.call, r.rows)

\* The accept route for current_user: the row is accepted first, the
\* recipient is compared afterwards; 404 ends the route, otherwise the
\* friendship is created and the two jobs are enqueued.
accept_request(s, rows, request_id, current_user) ==
    LET a == accept_friend_request(s.reqs, request_id)
        fr == a.fr
    IN  IF fr = NoRequest \/ fr.to_user # current_user
        THEN [status |-> 404, reqs |-> a.reqs, rows |-> rows,
              enqueued |-> s.enqueued]
        ELSE [status |-> 200, reqs |-> a.reqs,
              rows |-> RunFriend(FriendEnter(fr.from_user, fr.to_user), rows),
              enqueued |-> s.enqueued \o
                 <<[type |-> "friend_requests", priority |-> HIGH,
                    what |-> "accept_request"],
                   [type |-> "user_activity", priority |-> LOW,
                    what |-> "friend_request_accepted"]>>]

\* The friend-request route: 400 for users that are friends already,
\* otherwise a new row and the two jobs.
friend_request(s, rows, user_id, current_user) ==
    IF are_friends(rows, current_user, user_id)
        THEN [status |-> 400, reqs |-> s.reqs, enqueued |-> s.enqueued]
    ELSE [status |-> 200,
              reqs |-> send_friend_request(s.reqs, current_user, user_id),
              enqueued |-> s.enqueued \o
                 <<[type |-> "friend_requests", priority |-> HIGH,
                    what |-> "send_request"],
                   [type |-> "user_activity", priority |-> LOW,
                    what |-> "friend_request_sent"]>>]

\* ------------------------------------------------------------- cache lists
\* The cache's Redis lists, one per user's notifications key; the
\* notifications the worker has processed per user, newest first; the last
\* list operation.
KEEP == 100
CacheUsers == {1}
Notes == 1..MaxJobs
Notification(n) == [title |-> n, read |-> FALSE]
IdleCache == [store |-> [u \in CacheUsers |-> <<>>],
              sent |-> [u \in CacheUsers |-> <<>>],
              last |-> [op |-> "none"]]

RECURSIVE PushAll(_, _)
\* `for value in values: lpush(cache_key, json.dumps(value))`.
PushAll(l, values) ==
    IF values = <<>> THEN l
    ELSE PushAll(LPush(l, Dumps(Head(values))), Tail(values))

\* cache.set_list against the handle conn: nothing without a handle;
\* otherwise the key is deleted and every value pushed at the head in turn.
set_list(conn, store, k, values) ==
    IF ~conn THEN [ret |-> FALSE, store |-> store]
    ELSE [ret |-> TRUE, store |-> [store EXCEPT ![k] = PushAll(<<>>, values)]]

\* cache.get_list against the handle conn: [] without a handle; otherwise
\* lrange 0..-1, head first, every entry decoded.
get_list(conn, store, k) ==
    IF ~conn THEN <<>>
    ELSE [i \in 1..Len(store[k]) |->
            IF Decodable(store[k][i]) THEN Loads(store[k][i]) ELSE store[k][i]]

\* notifications[:100].
Truncate(l) == IF Len(l) > KEEP THEN SubSeq(l, 1, KEEP) ELSE l

\* NotificationWorker.process_job's list rebuild for user_id.
rebuild(conn, store, user_id, notification_data) ==
    LET notifications == get_list(conn, store, user_id)
    IN  set_list(conn, store, user_id,
                 Truncate(<<notification_data>> \o notifications))

\* The lists of at most MaxBatch notifications.
NoteLists ==
    UNION {[1..n -> {Notification(i) : i \in Notes}] : n \in 0..MaxBatch}

\* ------------------------------------------------------------------- time
\* Keys whose time to live has run out are gone.
ExpireListsOnly(w, t) ==
    [w EXCEPT !.lists = [k \in ListKeys |->
                 IF w.ttl[k] # NoTTL /\ w.ttl[k] <= t THEN <<>> ELSE w.lists[k]],
              !.ttl = [k \in ListKeys |->
                 IF w.ttl[k] # NoTTL /\ w.ttl[k] <= t THEN NoTTL ELSE w.ttl[k]]]

Expire(w, t) ==
    [w EXCEPT !.lists = [k \in ListKeys |->
                 IF w.ttl[k] # NoTTL /\ w.ttl[k] <= t THEN <<>> ELSE w.lists[k]],
              !.ttl = [k \in ListKeys |->
                 IF w.ttl[k] # NoTTL /\ w.ttl[k] <= t THEN NoTTL ELSE w.ttl[k]],
              !.jobs = [i \in {j \in DOMAIN w.jobs : w.jobs[j].exp > t} |-> w.jobs[i]]]

\* ------------------------------------------------------------ interleaved
NoLast == [op |-> "none"]

\* The state of the handlers, the lifecycle and the routes at start.
SysInit ==
    /\ hnd = IdleHandler
    /\ life = [w \in LifeWorkers |-> NoTask]
    /\ mgr = IdleManager
    /\ boot = IdleBoot
    /\ social = IdleSocial
    /\ ncache = IdleCache

Init ==
    /\ REDIS = TRUE
    /\ KAFKA_PRODUCER = TRUE
    /\ redis_lists = [k \in ListKeys |-> <<>>]
    /\ redis_ttl = [k \in ListKeys |-> NoTTL]
    /\ redis_jobs = <<>>
    /\ kafka_log = <<>>
    /\ now = 0
    /\ enq = [p \in Producers |-> IdleEnq]
    /\ deq = [c \in Consumers |-> IdleDeq]
    /\ delivered = [c \in Consumers |-> <<>>]
    /\ nextId = 1
    /\ ticks = 0
    /\ faults = 0
    /\ calls = 0
    /\ last = NoLast
    /\ pushlog = [k \in ListKeys |-> <<>>]
    /\ upd = [u \in Updaters |-> IdleUpd]
    /\ written = <<>>
    /\ wrk = IdleWorker
    /\ handled = <<>>
    /\ friendships = <<>>
    /\ fcalls = [f \in Callers |-> IdleFriend]
    /\ SysInit

\* A producer calls enqueue(queue_type, data, priority, user_id=...).
EnqueueCall(p, q, priority, user_id) ==
    /\ ~EnqRunning(enq[p])
    /\ nextId <= MaxJobs
    /\ enq' = [enq EXCEPT ![p] = EnqCall(nextId, q, priority, user_id, now)]
    /\ nextId' = nextId + 1
    /\ UNCHANGED <<world_vars, now, deq, delivered, ticks, faults, calls, last, pushlog>>
    /\ UNCHANGED <<written, ext_vars>>

\* The next store operation of a running enqueue completes.
EnqueueStep(p) ==
    /\ EnqRunning(enq[p])
    /\ LET r == EnqStep(enq[p], World, TRUE, FALSE, now)
       IN  /\ enq' = [enq EXCEPT ![p] = r.call]
           /\ SetWorld(r.w)
           /\ pushlog' = IF enq[p].pc = "lpush" /\ r.call.pc = "expire"
                         THEN [pushlog EXCEPT ![r.call.key] = Append(@, r.call.job.id)]
                         ELSE pushlog
           /\ written' = Touch(World, r.w, now)
    /\ UNCHANGED <<now, deq, delivered, nextId, ticks, faults, calls, last>>
    /\ UNCHANGED ext_vars

\* A worker calls dequeue(queue_type, batch_size).
DequeueCall(c, q, batch) ==
    /\ deq[c].pc # "pop"
    /\ calls < MaxCalls
    /\ LET r == DeqCall(q, batch, World, FALSE)
       IN  /\ deq' = [deq EXCEPT ![c] = r.call]
           /\ SetWorld(r.w)
    /\ calls' = calls + 1
    /\ UNCHANGED <<now, enq, delivered, nextId, ticks, faults, last, pushlog>>
    /\ UNCHANGED <<written, ext_vars>>

\* The next rpop of a running dequeue completes; when the loops end the call
\* returns its list to the worker and its frame is gone.
DequeueStep(c) ==
    /\ deq[c].pc = "pop"
    /\ LET r == DeqPop(deq[c], World, TRUE)
       IN  /\ deq' = [deq EXCEPT ![c] = IF r.call.pc = "done" THEN IdleDeq
                                                              ELSE r.call]
           /\ SetWorld(r.w)
           /\ delivered' = IF r.call.pc = "done"
                           THEN [delivered EXCEPT ![c] = @ \o r.call.jobs]
                           ELSE delivered
    /\ UNCHANGED <<now, enq, nextId, ticks, faults, calls, last, pushlog>>
    /\ UNCHANGED <<written, ext_vars>>

\* Another client of the shared store pushes an entry that is not a job of
\* this queue manager: a job for the ":normal" list, or bytes that are not JSON.
ForeignEntry(id, wellformed, t) ==
    [wf |-> wellformed, body |-> NewJob(id, "notifications", NORMAL, None, t)]

ForeignPush(k, wellformed) ==
    /\ REDIS
    /\ nextId <= MaxJobs
    /\ wellformed => k = redis_queues["notifications"] \o ":normal"
    /\ redis_lists' = [redis_lists EXCEPT ![k] =
                          LPush(@, ForeignEntry(nextId, wellformed, now))]
    /\ pushlog' = [pushlog EXCEPT ![k] = Append(@, nextId)]
    /\ nextId' = nextId + 1
    /\ UNCHANGED <<REDIS, KAFKA_PRODUCER, redis_ttl, redis_jobs, kafka_log,
                   now, enq, deq, delivered, ticks, faults, calls, last>>
    /\ UNCHANGED <<written, ext_vars>>

Next ==
    \/ \E p \in Producers, q \in ConcQueues, pr \in ConcPriority :
          EnqueueCall(p, q, pr, 7)
    \/ \E p \in Producers : EnqueueStep(p)
    \/ \E c \in Consumers, q \in ConcQueues, b \in BatchSizes :
          DequeueCall(c, q, b)
    \/ \E c \in Consumers : DequeueStep(c)
    \/ ForeignPush(redis_queues["notifications"] \o ":normal", TRUE)

Spec == Init /\ [][Next]_vars

\* ---------------------------------------------------- time specification
\* One producer of fast-path jobs and one worker, with the clock running and
\* every store operation succeeding.  A store operation is answered within
\* the socket timeout, so only a short step of the clock fits inside a call.
Tick(d) ==
    /\ ticks < MaxTicks
    /\ d > SOCKET_TIMEOUT =>
          /\ \A p \in Producers : ~EnqRunning(enq[p])
          /\ \A c \in Consumers : deq[c].pc # "pop"
          /\ \A u \in Updaters : ~UpdRunning(upd[u])
    /\ now' = now + d
    /\ ticks' = ticks + 1
    /\ SetWorld(Expire(World, now + d))
    /\ UNCHANGED <<enq, deq, delivered, nextId, faults, calls, last, pushlog>>
    /\ UNCHANGED <<written, ext_vars>>

TimeNext ==
    \/ \E p \in Producers, q \in ConcQueues, pr \in {HIGH, CRITICAL} :
          EnqueueCall(p, q, pr, 7)
    \/ \E p \in Producers : EnqueueStep(p)
    \/ \E q \in ConcQueues, b \in BatchSizes : DequeueCall("w1", q, b)
    \/ DequeueStep("w1")
    \/ \E d \in TickSteps : Tick(d)

TimeSpec == Init /\ [][TimeNext]_vars

\* --------------------------------------------------- whole-call actions
\* enqueue and dequeue run from call to return with no other operation in
\* between: the composition of their steps.  failAt names the store
\* operation that raises ("none" / 0: every operation succeeds).
RECURSIVE RunEnq(_, _, _, _, _)
RunEnq(c, w, failAt, conn, t) ==
    IF ~EnqRunning(c) THEN [call |-> c, w |-> w]
    ELSE LET r == EnqStep(c, w, c.pc # failAt, conn, t)
         IN  RunEnq(r.call, r.w, failAt, conn, t)

RECURSIVE RunDeq(_, _, _)
RunDeq(c, w, failAt) ==
    IF c.pc # "pop" THEN [call |-> c, w |-> w]
    ELSE LET r == DeqPop(c, w, c.pops + 1 # failAt)
         IN  RunDeq(r.call, r.w, failAt)

Snap == [w |-> World, nextId |-> nextId, calls |-> calls]

Enqueue(q, priority, user_id, failAt, conn) ==
    /\ nextId <= MaxSeqJobs
    /\ failAt = "none" \/ faults < MaxFaults
    /\ LET r == RunEnq(EnqCall(nextId, q, priority, user_id, now), World,
                       failAt, conn, now)
       IN  /\ SetWorld(r.w)
           /\ faults' = IF r.call.pc = "raised" THEN faults + 1 ELSE faults
           /\ last' = [op |-> "enqueue", pre |-> Snap, post |-> r.w,
                       call |-> r.call, failAt |-> failAt]
           /\ written' = Touch(World, r.w, now)
    /\ nextId' = nextId + 1
    /\ UNCHANGED <<now, enq, deq, delivered, ticks, calls, pushlog>>
    /\ UNCHANGED ext_vars

Dequeue(q, batch, failAt, conn) ==
    /\ calls < MaxCalls
    /\ failAt = 0 \/ faults < MaxFaults
    /\ LET r0 == DeqCall(q, batch, World, conn)
           r == RunDeq(r0.call, r0.w, failAt)
       IN  /\ SetWorld(r.w)
           /\ faults' = IF r.call.pc = "raised" THEN faults + 1 ELSE faults
           /\ last' = [op |-> "dequeue", pre |-> Snap, post |-> r.w,
                       call |-> r.call, failAt |-> failAt]
    /\ calls' = calls + 1
    /\ UNCHANGED <<now, enq, deq, delivered, nextId, ticks, pushlog>>
    /\ UNCHANGED <<written, ext_vars>>

RECURSIVE RunUpd(_, _, _, _)
RunUpd(c, w, failAt, t) ==
    IF ~UpdRunning(c) THEN [call |-> c, w |-> w]
    ELSE LET r == UpdStep(c, w, c.pc # failAt, t)
         IN  RunUpd(r.call, r.w, failAt, t)

\* get_job_status(job_id), from call to return.
GetStatus(id, failAt, conn) ==
    /\ failAt = "none" \/ faults < MaxFaults
    /\ LET r == GetJobStatus(id, World, failAt # "get", conn)
       IN  /\ SetWorld(r.w)
           /\ faults' = IF r.raised THEN faults + 1 ELSE faults
           /\ last' = [op |-> "get_job_status", pre |-> Snap, post |-> r.w,
                       call |-> [pc |-> IF r.raised THEN "raised" ELSE "returned",
                                 id |-> id, ret |-> r.ret],
                       failAt |-> failAt]
    /\ UNCHANGED <<now, enq, deq, delivered, nextId, ticks, calls, pushlog>>
    /\ UNCHANGED <<written, ext_vars>>

\* update_job_status(job_id, status, result), from call to return.
UpdateJobStatus(id, status, result, failAt, conn) ==
    /\ calls < MaxCalls
    /\ failAt = "none" \/ faults < MaxFaults
    /\ LET r0 == UpdCall(id, status, result, World, conn)
           r == RunUpd(r0.call, r0.w, failAt, now)
       IN  /\ SetWorld(r.w)
           /\ faults' = IF r.call.pc = "raised" THEN faults + 1 ELSE faults
           /\ last' = [op |-> "update_job_status", pre |-> Snap, post |-> r.w,
                       call |-> r.call, failAt |-> failAt]
           /\ written' = Touch(World, r.w, now)
    /\ calls' = calls + 1
    /\ UNCHANGED <<now, enq, deq, delivered, nextId, ticks, pushlog>>
    /\ UNCHANGED ext_vars

\* Stores connected, no store errors: a producer of fast-path and log-only
\* jobs, a consumer of every queue type, and foreign entries.
SeqNext ==
    \/ \E q \in ConcQueues, pr \in SeqPriority : Enqueue(q, pr, 7, "none", FALSE)
    \/ \E q \in QueueType, b \in 1..MaxSeqBatch : Dequeue(q, b, 0, FALSE)
    \/ \E k \in ConcKeys, wellformed \in BOOLEAN : ForeignPush(k, wellformed)

SeqSpec == Init /\ [][SeqNext]_vars

\* get_queue_stats(): the length of every list of every queue type.
get_queue_stats(w) ==
    [q \in QueueType |->
        [critical |-> Len(w.lists[redis_queues[q] \o ":critical"]),
         high |-> Len(w.lists[redis_queues[q] \o ":high"]),
         normal |-> Len(w.lists[redis_queues[q] \o ":normal"]),
         total |-> Len(w.lists[redis_queues[q] \o ":critical"])
                   + Len(w.lists[redis_queues[q] \o ":high"])
                   + Len(w.lists[redis_queues[q] \o ":normal"])]]

GetQueueStats ==
    /\ REDIS
    /\ last.op # "get_queue_stats"
    /\ last' = [op |-> "get_queue_stats", ret |-> get_queue_stats(World)]
    /\ UNCHANGED <<world_vars, now, enq, deq, delivered, nextId, ticks, faults,
                   calls, pushlog>>
    /\ UNCHANGED <<written, ext_vars>>

\* The queue manager's own operations, as the producer wrappers and the
\* workers call them: enqueue of every queue type and priority, dequeue,
\* get_queue_stats; stores connected, no store errors, no other client.
OwnNext ==
    \/ /\ nextId <= MaxJobs
       /\ \E q \in QueueType, pr \in Priority : Enqueue(q, pr, 7, "none", FALSE)
    \/ \E q \in QueueType, b \in BatchSizes : Dequeue(q, b, 0, FALSE)
    \/ GetQueueStats

OwnSpec == Init /\ [][OwnNext]_vars

\* Producers of every queue type, priority and owner, and a reader of the
\* status records; stores connected, no store errors.
LogNext ==
    \/ /\ nextId <= MaxJobs
       /\ \E q \in QueueType, pr \in Priority, u \in UserIds :
             Enqueue(q, pr, u, "none", FALSE)
    \/ \E id \in 1..nextId : GetStatus(id, "none", FALSE)

LogSpec == Init /\ [][LogNext]_vars

\* ------------------------------------------------- status specification
\* A caller (a task of a worker) calls update_job_status.
UpdateCall(u, id, status, result) ==
    /\ ~UpdRunning(upd[u])
    /\ calls < MaxCalls
    /\ LET r == UpdCall(id, status, result, World, FALSE)
       IN  /\ upd' = [upd EXCEPT ![u] = r.call]
           /\ SetWorld(r.w)
    /\ calls' = calls + 1
    /\ UNCHANGED <<now, enq, deq, delivered, nextId, ticks, faults, last, pushlog>>
    /\ UNCHANGED <<written, wrk, handled, friendships, fcalls, sys_vars>>

\* The GET or the SETEX of a running update_job_status completes; last keeps
\* the most recent status write.
UpdateStep(u) ==
    /\ UpdRunning(upd[u])
    /\ LET r == UpdStep(upd[u], World, TRUE, now)
       IN  /\ upd' = [upd EXCEPT ![u] = r.call]
           /\ SetWorld(r.w)
           /\ written' = Touch(World, r.w, now)
           /\ last' = IF upd[u].pc = "setex"
                      THEN [op |-> "status_write", id |-> upd[u].id,
                            status |-> upd[u].status, result |-> upd[u].result]
                      ELSE last
    /\ UNCHANGED <<now, enq, deq, delivered, nextId, ticks, faults, calls, pushlog>>
    /\ UNCHANGED <<wrk, handled, friendships, fcalls, sys_vars>>

\* Clock steps: a short one, and the ones that bring a status record to the
\* end of its TTL or one second before it.
StatusTicks == {1, JOB_TTL}
UpdTicks == {1, JOB_TTL - 1}

\* A producer, a consumer, calls of update_job_status on any job id, each
\* running from call to return, and the clock; stores connected, no store
\* errors.
StatusNext ==
    \/ /\ nextId <= MaxJobs
       /\ \E q \in ConcQueues : Enqueue(q, HIGH, 7, "none", FALSE)
    \/ \E q \in ConcQueues : Dequeue(q, 1, 0, FALSE)
    \/ \E id \in 1..nextId, inp \in UpdInputs :
          UpdateJobStatus(id, inp[1], inp[2], "none", FALSE)
    \/ \E d \in StatusTicks : Tick(d)

StatusSpec == Init /\ [][StatusNext]_vars

\* A producer, two callers of update_job_status whose GET and SETEX steps
\* interleave, and the clock; stores connected, no store errors.
UpdNext ==
    \/ /\ nextId <= MaxJobs
       /\ \E q \in ConcQueues : Enqueue(q, HIGH, 7, "none", FALSE)
    \/ \E u \in Updaters, id \in 1..nextId, inp \in UpdInputs :
          UpdateCall(u, id, inp[1], inp[2])
    \/ \E u \in Updaters : UpdateStep(u)
    \/ \E d \in UpdTicks : Tick(d)

UpdSpec == Init /\ [][UpdNext]_vars

\* ------------------------------------------------- worker specification
\* start(): "self.running = True", then the loop.
WorkerStart ==
    /\ wrk.pc = "stopped"
    /\ wrk' = [wrk EXCEPT !.pc = "dequeue", !.running = TRUE]
    /\ UNCHANGED <<world_vars, now, enq, deq, delivered, nextId, ticks, faults,
                   calls, last, pushlog, upd, written, handled, friendships, fcalls, sys_vars>>

\* "jobs = await queue_manager.dequeue(...)": an empty list sends the worker
\* to sleep, any other becomes the tasks handed to gather.
WorkerReceive(jobs) ==
    /\ wrk' = IF jobs = <<>> THEN [wrk EXCEPT !.pc = "sleep"]
              ELSE [wrk EXCEPT !.pc = "gather",
                      !.tasks = [n \in 1..Len(jobs) |-> NewTask(jobs[n])]]
    /\ handled' = handled \o [n \in 1..Len(jobs) |->
                                [id |-> jobs[n].id, out |-> "running",
                                 mark |-> "none", tracked |-> FALSE]]

WorkerTake ==
    /\ wrk.pc = "dequeue"
    /\ wrk.running
    /\ LET r0 == DeqCall(queue_type, batch_size, World, FALSE)
           r == RunDeq(r0.call, r0.w, 0)
       IN  /\ SetWorld(r.w)
           /\ WorkerReceive(r.call.jobs)
    /\ UNCHANGED <<now, enq, deq, delivered, nextId, ticks, faults, last,
                   pushlog, upd, written, friendships, fcalls, sys_vars>>

\* The dequeue of a worker whose iterations are counted.
WorkerDequeue ==
    /\ calls < MaxCalls
    /\ WorkerTake
    /\ calls' = calls + 1

\* The dequeue of a worker that keeps running, one rpop at a time: the call
\* is entered, and each rpop is a step that the producers' store operations
\* interleave with.
WorkerFrame == "w1"

WorkerPollCall ==
    /\ wrk.pc = "dequeue"
    /\ wrk.running
    /\ LET r == DeqCall(queue_type, batch_size, World, FALSE)
       IN  /\ deq' = [deq EXCEPT ![WorkerFrame] = r.call]
           /\ SetWorld(r.w)
    /\ wrk' = [wrk EXCEPT !.pc = "popping"]
    /\ UNCHANGED <<now, enq, delivered, nextId, ticks, faults, calls, last,
                   pushlog, upd, written, handled, friendships, fcalls, sys_vars>>

WorkerPollStep ==
    /\ wrk.pc = "popping"
    /\ LET r == IF deq[WorkerFrame].pc = "pop"
                THEN DeqPop(deq[WorkerFrame], World, TRUE)
                ELSE [call |-> deq[WorkerFrame], w |-> World]
       IN  /\ SetWorld(r.w)
           /\ IF r.call.pc = "pop"
              THEN /\ deq' = [deq EXCEPT ![WorkerFrame] = r.call]
                   /\ UNCHANGED <<wrk, handled>>
              ELSE /\ deq' = [deq EXCEPT ![WorkerFrame] = IdleDeq]
                   /\ WorkerReceive(r.call.jobs)
    /\ UNCHANGED <<now, enq, delivered, nextId, ticks, faults, calls, last,
                   pushlog, upd, written, friendships, fcalls, sys_vars>>

\* "await asyncio.sleep(self.delay); continue"
WorkerWake ==
    /\ wrk.pc = "sleep"
    /\ wrk' = [wrk EXCEPT !.pc = "dequeue"]
    /\ UNCHANGED <<world_vars, now, enq, deq, delivered, nextId, ticks, faults,
                   calls, last, pushlog, upd, written, handled, friendships, fcalls, sys_vars>>

\* A task of the batch takes its next step; the tasks interleave at their
\* awaits.
TaskStep(i, raises) ==
    /\ wrk.pc = "gather"
    /\ i \in DOMAIN wrk.tasks
    /\ wrk.tasks[i].pc # "done"
    /\ raises => wrk.tasks[i].pc = "handler"
    /\ LET r == ProcessStep(wrk, i, raises, World, now)
           task == r.wrk.tasks[i]
       IN  /\ wrk' = r.wrk
           /\ SetWorld(r.w)
           /\ written' = Touch(World, r.w, now)
           /\ handled' = [n \in DOMAIN handled |->
                 IF handled[n].id # task.job.id THEN handled[n]
                 ELSE [handled[n] EXCEPT
                         !.out = IF wrk.tasks[i].pc # "handler" THEN @
                                 ELSE IF raises THEN "raised" ELSE "ok",
                         !.mark = IF task.pc = "done" THEN task.upd.status ELSE @,
                         !.tracked = task.upd.data # NoStatus]]
    /\ UNCHANGED <<now, enq, deq, delivered, nextId, ticks, faults, calls,
                   last, pushlog, upd, friendships, fcalls, sys_vars>>

\* "await asyncio.gather(*tasks, return_exceptions=True)" returns when every
\* task has finished, and the loop goes to its next iteration.
WorkerGathered ==
    /\ wrk.pc = "gather"
    /\ \A i \in DOMAIN wrk.tasks : wrk.tasks[i].pc = "done"
    /\ wrk' = [wrk EXCEPT !.pc = "dequeue", !.tasks = <<>>]
    /\ UNCHANGED <<world_vars, now, enq, deq, delivered, nextId, ticks, faults,
                   calls, last, pushlog, upd, written, handled, friendships, fcalls, sys_vars>>

\* A producer of fast-path jobs, whose store operations interleave with the
\* steps of one worker; stores connected, no store errors.
WorkerNext ==
    \/ \E p \in Producers, q \in ConcQueues, pr \in ConcPriority :
          EnqueueCall(p, q, pr, 7)
    \/ \E p \in Producers : EnqueueStep(p)
    \/ WorkerStart
    \/ WorkerDequeue
    \/ WorkerWake
    \/ \E i \in 1..batch_size, raises \in BOOLEAN : TaskStep(i, raises)
    \/ WorkerGathered

WorkerSpec == Init /\ [][WorkerNext]_vars

\* The producer wrappers (enqueue_notification: NORMAL; a fast-path producer:
\* HIGH) and the worker of the queue type, which keeps running.
LivePriority == {NORMAL, HIGH}

WorkerLoop ==
    \/ WorkerStart
    \/ WorkerPollCall
    \/ WorkerPollStep
    \/ WorkerWake
    \/ \E i \in 1..batch_size, raises \in BOOLEAN : TaskStep(i, raises)
    \/ WorkerGathered

LiveNext ==
    \/ \E p \in Producers, pr \in LivePriority :
          EnqueueCall(p, queue_type, pr, 7)
    \/ \E p \in Producers : EnqueueStep(p)
    \/ WorkerLoop

\* Weak fairness on the worker loop and on the store operations of enqueue.
LiveSpec ==
    /\ Init
    /\ [][LiveNext]_vars
    /\ WF_vars(WorkerLoop)
    /\ WF_vars(\E p \in Producers : EnqueueStep(p))

\* create_friendship(user_a, user_b) is called.
FriendCall(f, user_a, user_b) ==
    /\ calls < MaxCalls
    /\ ~FriendRunning(fcalls[f])
    /\ fcalls' = [fcalls EXCEPT ![f] = FriendEnter(user_a, user_b)]
    /\ calls' = calls + 1
    /\ UNCHANGED <<world_vars, now, enq, deq, delivered, nextId, ticks, faults,
                   last, pushlog, upd, written, wrk, handled, friendships,
                   sys_vars>>

\* The next database operation of a running create_friendship call.
FriendStep(f) ==
    /\ FriendRunning(fcalls[f])
    /\ fcalls[f].pc = "flush" =>
          ~InsertBlocked(fcalls[f], {fcalls[g] : g \in Callers \ {f}})
    /\ LET r == create_friendship_step(fcalls[f], friendships)
       IN  /\ fcalls' = [fcalls EXCEPT ![f] = r.call]
           /\ friendships' = r.rows
    /\ UNCHANGED <<world_vars, now, enq, deq, delivered, nextId, ticks, faults,
                   calls, last, pushlog, upd, written, wrk, handled,
                   sys_vars>>

\* The accept route and a worker delivery creating friendships between
\* existing users, their database operations interleaved; database reachable.
FriendNext ==
    \/ \E f \in Callers, user_a \in Users, user_b \in Users :
          FriendCall(f, user_a, user_b)
    \/ \E f \in Callers : FriendStep(f)

FriendSpec == Init /\ [][FriendNext]_vars

\* Stores that may be absent (never connected) or reject an operation.
\* A worker takes a job into a slot of its batch.
HandleJob(s, kind, action, found) ==
    /\ hnd[s].pc # "running"
    /\ kind # "friend_requests" => action = "other"
    /\ hnd' = [hnd EXCEPT ![s] = HandlerEnter(kind, action, found)]
    /\ UNCHANGED <<queue_vars, others_hnd>>

HandleStep(s) ==
    /\ hnd[s].pc = "running"
    /\ hnd' = [hnd EXCEPT ![s] = HandlerStep(hnd[s])]
    /\ UNCHANGED <<queue_vars, others_hnd>>

\* The jobs of one batch handled concurrently, the database collaborators
\* succeeding.
HandlerNext ==
    \/ \E s \in Slots, kind \in HandlerKinds, action \in HandlerActions,
          found \in BOOLEAN : HandleJob(s, kind, action, found)
    \/ \E s \in Slots : HandleStep(s)

HandlerSpec == Init /\ [][HandlerNext]_vars

\* start_all(): a task per worker, none of them run yet.
StartAll ==
    /\ mgr.pc \in {"idle", "stopped"}
    /\ life' = [w \in LifeWorkers |-> [NoTask EXCEPT !.pc = "unscheduled"]]
    /\ mgr' = [mgr EXCEPT !.pc = "started"]
    /\ UNCHANGED <<queue_vars, others_life>>

\* A step of the task of worker w.
LifeStep(w, n, raises) ==
    /\ ~Terminated(life[w])
    /\ LET l == life[w]
           after ==
              CASE l.pc = "unscheduled" -> LifeBeginStep(l)
                [] l.pc = "dequeue" -> LifeDequeueStep(l, n, raises)
                [] l.pc \in {"sleep", "backoff"} -> LifeWakeStep(l)
                [] l.pc = "gather" -> LifeGatherStep(l)
       IN  /\ l.pc = "gather" => \A i \in DOMAIN l.children : l.children[i] = "done"
           /\ l.pc # "dequeue" => n = 0 /\ ~raises
           /\ raises => n = 0
           /\ life' = [life EXCEPT ![w] = after]
           /\ mgr' = [mgr EXCEPT !.late = @ \/ (mgr.pc = "stopped" /\ Issues(l, after))]
    /\ UNCHANGED <<queue_vars, others_life>>

\* A step of a process_job of the batch of worker w.
LifeChild(w, i) ==
    /\ life[w].pc = "gather"
    /\ i \in DOMAIN life[w].children
    /\ life[w].children[i] # "done"
    /\ LET after == LifeChildStep(life[w], i)
       IN  /\ life' = [life EXCEPT ![w] = after]
           /\ mgr' = [mgr EXCEPT !.late = @ \/ (mgr.pc = "stopped" /\ Issues(life[w], after))]
    /\ UNCHANGED <<queue_vars, others_life>>

\* stop_all() up to its await: stop() of every worker and cancel() of every
\* task run without a suspension in between.
StopAll ==
    /\ mgr.pc \in {"idle", "started"}
    /\ life' = [w \in LifeWorkers |-> Cancel(Stop(life[w]))]
    /\ mgr' = [mgr EXCEPT !.pc = "waiting",
                          !.at_stop = [w \in LifeWorkers |-> life[w].pc]]
    /\ UNCHANGED <<queue_vars, others_life>>

\* stop_all() returns.
StopAllReturns ==
    /\ mgr.pc = "waiting"
    /\ Gathered(life)
    /\ mgr' = [mgr EXCEPT !.pc = "stopped"]
    /\ UNCHANGED <<queue_vars, others_life, life>>

LifeNext ==
    \/ StartAll
    \/ \E w \in LifeWorkers, n \in LifeJobs, raises \in BOOLEAN : LifeStep(w, n, raises)
    \/ \E w \in LifeWorkers, i \in 1..MaxBatch : LifeChild(w, i)
    \/ StopAll
    \/ StopAllReturns

LifeSpec == Init /\ [][LifeNext]_vars

\* A coroutine calls redis_startup: main's startup hook unconditionally,
\* get_redis when the client is not ready.
BootCall(b, hook) ==
    /\ ~BootRunning(boot, b)
    /\ hook \/ NeedsStartup(boot)
    /\ boot' = BootEnter(boot, b)
    /\ UNCHANGED <<queue_vars, others_boot>>

\* The next step of a running startup; answers: the ping succeeds.
BootStep(b, answers) ==
    /\ BootRunning(boot, b)
    /\ answers => boot.st[b].pc = "ping"
    /\ boot' = BootStepOf(boot, b, answers)
    /\ UNCHANGED <<queue_vars, others_boot>>

BootNext ==
    \/ \E b \in Booters, hook \in BOOLEAN : BootCall(b, hook)
    \/ \E b \in Booters, answers \in BOOLEAN : BootStep(b, answers)

BootSpec == Init /\ [][BootNext]_vars

\* POST /{user_id}/friend-request by current_user.
FriendRequestRoute(current_user, user_id) ==
    /\ Len(social.reqs) < MaxCalls
    /\ LET r == friend_request(social, friendships, user_id, current_user)
       IN  social' = [social EXCEPT !.reqs = r.reqs, !.enqueued = r.enqueued,
                                    !.last = [op |-> "friend_request",
                                              status |-> r.status]]
    /\ UNCHANGED <<world_vars, now, enq, deq, delivered, nextId, ticks, faults,
                   calls, last, pushlog, upd, written, wrk, handled,
                   friendships, fcalls, others_social>>

\* POST /friend-request/{request_id}/accept by current_user.
AcceptRoute(current_user, request_id) ==
    /\ Len(social.enqueued) < 4 * MaxCalls
    /\ LET r == accept_request(social, friendships, request_id, current_user)
       IN  /\ social' = [social EXCEPT
                 !.reqs = r.reqs, !.enqueued = r.enqueued,
                 !.last = [op |-> "accept", status |-> r.status,
                           request_id |-> request_id,
                           current_user |-> current_user,
                           pre |-> [reqs |-> social.reqs,
                                    rows |-> friendships,
                                    enqueued |-> social.enqueued],
                           post |-> [reqs |-> r.reqs, rows |-> r.rows,
                                     enqueued |-> r.enqueued]]]
           /\ friendships' = r.rows
    /\ UNCHANGED <<world_vars, now, enq, deq, delivered, nextId, ticks, faults,
                   calls, last, pushlog, upd, written, wrk, handled,
                   fcalls, others_social>>

\* Authenticated users sending and accepting friend requests, one route
\* call at a time; database reachable.
RouteNext ==
    \/ \E u \in AuthUsers, to \in AuthUsers : FriendRequestRoute(u, to)
    \/ \E u \in AuthUsers, rid \in 1..(MaxCalls + 1) : AcceptRoute(u, rid)

RouteSpec == Init /\ [][RouteNext]_vars

\* set_list(k, xs) followed by get_list(k), through the cache module's own
\* handle or against a connected one.
ListRoundTrip(conn, k, xs) ==
    /\ LET s == set_list(conn, ncache.store, k, xs)
       IN  ncache' = [ncache EXCEPT
              !.store = s.store,
              !.last = [op |-> "round_trip", conn |-> conn, k |-> k,
                        xs |-> xs, got |-> get_list(conn, s.store, k)]]
    /\ UNCHANGED <<queue_vars, others_ncache>>

\* The notification worker stores one more notification for user_id.
NotifyRebuild(user_id, n) ==
    /\ Len(ncache.sent[user_id]) < MaxBatch
    /\ LET s == rebuild(cache_REDIS, ncache.store, user_id, Notification(n))
           sent == <<Notification(n)>> \o ncache.sent[user_id]
       IN  ncache' = [ncache EXCEPT
              !.store = s.store,
              !.sent[user_id] = sent,
              !.last = [op |-> "rebuild", conn |-> cache_REDIS,
                        k |-> user_id, xs |-> Truncate(sent),
                        got |-> get_list(cache_REDIS, s.store, user_id)]]
    /\ UNCHANGED <<queue_vars, others_ncache>>

CacheNext ==
    \/ \E conn \in {cache_REDIS, TRUE}, k \in CacheUsers, xs \in NoteLists :
          ListRoundTrip(conn, k, xs)
    \/ \E u \in CacheUsers, n \in Notes : NotifyRebuild(u, n)

CacheSpec == Init /\ [][CacheNext]_vars

FaultInit ==
    /\ REDIS \in BOOLEAN
    /\ KAFKA_PRODUCER \in BOOLEAN
    /\ redis_lists = [k \in ListKeys |-> <<>>]
    /\ redis_ttl = [k \in ListKeys |-> NoTTL]
    /\ redis_jobs = <<>>
    /\ kafka_log = <<>>
    /\ now = 0
    /\ enq = [p \in Producers |-> IdleEnq]
    /\ deq = [c \in Consumers |-> IdleDeq]
    /\ delivered = [c \in Consumers |-> <<>>]
    /\ nextId = 1
    /\ ticks = 0
    /\ faults = 0
    /\ calls = 0
    /\ last = NoLast
    /\ pushlog = [k \in ListKeys |-> <<>>]
    /\ upd = [u \in Updaters |-> IdleUpd]
    /\ written = <<>>
    /\ wrk = IdleWorker
    /\ handled = <<>>
    /\ friendships = <<>>
    /\ fcalls = [f \in Callers |-> IdleFriend]
    /\ SysInit

EnqFailPoints == {"none", "lpush", "expire", "send", "setex"}

FaultNext ==
    /\ (nextId - 1) + calls < MaxFaultOps
    /\ \/ \E q \in ConcQueues, pr \in Priority, u \in UserIds,
             f \in EnqFailPoints, conn \in BOOLEAN : Enqueue(q, pr, u, f, conn)
       \/ \E q \in ConcQueues, b \in BatchSizes, f \in 0..(3 * MaxBatch),
             conn \in BOOLEAN : Dequeue(q, b, f, conn)
       \/ \E f \in {"none", "get"} : GetStatus(1, f, FALSE)
       \/ \E inp \in UpdInputs, f \in UpdFailPoints :
             UpdateJobStatus(1, inp[1], inp[2], f, FALSE)

FaultSpec == FaultInit /\ [][FaultNext]_vars

\* ------------------------------------------------------------- properties
Rank(suffix) == IF suffix = ":critical" THEN 1 ELSE IF suffix = ":high" THEN 2 ELSE 3

\* The fast-queue list a delivered job was pushed to.
KeyOf(job) == QueueName(job.type, job.priority)

\* Position of a job id in the push history of a list (0 when absent).
PushPos(k, id) ==
    IF \E n \in 1..Len(pushlog[k]) : pushlog[k][n] = id
    THEN CHOOSE n \in 1..Len(pushlog[k]) : pushlog[k][n] = id
    ELSE 0

\* Jobs a consumer has been handed so far: by its finished calls and by the
\* pops of its running call.
Received(c) == delivered[c] \o (IF deq[c].pc = "pop" THEN deq[c].jobs ELSE <<>>)

ListIds(k) == {redis_lists[k][n].body.id : n \in 1..Len(redis_lists[k])}

\* The list a dequeue call hands to its worker in the step that ends it.
Returned(c) == SubSeq(delivered'[c], Len(delivered[c]) + 1, Len(delivered'[c]))

\* The tier of the list a job was pushed to.
TierOf(job) == Rank(IF job.priority = CRITICAL THEN ":critical"
                    ELSE IF job.priority = HIGH THEN ":high" ELSE ":normal")

\* C1: in the list built by one dequeue call every job popped from the
\* critical list precedes every job popped from the high list, which
\* precedes every job popped from the normal list, and a call that has
\* collected batch_size jobs issues no further pop: a call about to pop
\* holds fewer than batch_size jobs, and the list it returns holds at most
\* batch_size jobs in tier order.
C1_TierOrderAndStop ==
    [][\A c \in Consumers :
          /\ \A i, j \in 1..Len(deq[c].src) :
                i < j => Rank(deq[c].src[i]) <= Rank(deq[c].src[j])
          /\ deq[c].pc = "pop" => Len(deq[c].jobs) < deq[c].batch
          /\ (deq[c].pc = "pop" /\ deq'[c].pc # "pop") =>
                /\ Len(Returned(c)) <= deq[c].batch
                /\ \A i, j \in 1..Len(Returned(c)) :
                      i < j => TierOf(Returned(c)[i]) <= TierOf(Returned(c)[j])]_vars

\* The only call so far returned a critical job and then a high job.
C1_Witness ==
    \E c \in Consumers :
        /\ calls = 1
        /\ deq[c].pc = "idle"
        /\ Len(delivered[c]) = 2
        /\ delivered[c][1].priority = CRITICAL
        /\ delivered[c][2].priority = HIGH

\* C5: within one list, jobs reach a consumer in arrival order: of two jobs
\* of the same list received by one consumer, the one received first was
\* pushed first.
C5_FifoWithinTier ==
    \A c \in Consumers :
        \A i, j \in 1..Len(Received(c)) :
            (i < j /\ KeyOf(Received(c)[i]) = KeyOf(Received(c)[j]))
            => PushPos(KeyOf(Received(c)[i]), Received(c)[i].id)
                 < PushPos(KeyOf(Received(c)[j]), Received(c)[j].id)

C5_Witness ==
    \E c \in Consumers :
        /\ Len(delivered[c]) = 2
        /\ KeyOf(delivered[c][1]) = KeyOf(delivered[c][2])
        /\ calls = 2

\* C6: with the pops of concurrent dequeue calls interleaved in any order, no
\* entry is handed out twice, and an entry handed out is no longer in a list.
C6_AtMostOnce ==
    /\ \A c \in Consumers : \A i, j \in 1..Len(Received(c)) :
          i # j => Received(c)[i].id # Received(c)[j].id
    /\ \A c, d \in Consumers : c # d =>
          \A i \in 1..Len(Received(c)), j \in 1..Len(Received(d)) :
              Received(c)[i].id # Received(d)[j].id
    /\ \A c \in Consumers, k \in ListKeys : \A i \in 1..Len(Received(c)) :
          Received(c)[i].id \notin ListIds(k)

C6_Witness ==
    /\ deq["w1"].pc = "pop" /\ Len(deq["w1"].jobs) = 1
    /\ deq["w2"].pc = "pop" /\ Len(deq["w2"].jobs) = 1
    /\ deq["w1"].q = deq["w2"].q

\* C4: until its status record expires, a fast-path job that enqueue has
\* tracked is still in its list or has been popped by a dequeue call.
HeldBy(c, id) ==
    \/ \E n \in 1..Len(deq[c].jobs) : deq[c].jobs[n].id = id
    \/ \E n \in 1..Len(delivered[c]) : delivered[c][n].id = id

C4_RetrievableUntilStatusExpiry ==
    \A id \in DOMAIN redis_jobs :
        LET job == Loads(redis_jobs[id].val)
        IN  FastPath(job.priority) =>
               \/ id \in ListIds(KeyOf(job))
               \/ \E c \in Consumers : HeldBy(c, id)

\* ------------------------------------------- properties of whole calls
QKeys(q) == {redis_queues[q] \o Suffixes[i] : i \in 1..3}

Min(a, b) == IF a <= b THEN a ELSE b

SeqIds(l) == {l[n].id : n \in 1..Len(l)}
EntryIds(l) == {l[n].body.id : n \in 1..Len(l)}
StoredIds(w, q) == UNION {EntryIds(w.lists[k]) : k \in QKeys(q)}

\* Number of entries, and of well-formed entries, in the lists of a queue type.
Depth(w, q) ==
    Len(w.lists[redis_queues[q] \o ":critical"])
      + Len(w.lists[redis_queues[q] \o ":high"])
      + Len(w.lists[redis_queues[q] \o ":normal"])
WellFormedIn(l) == Cardinality({n \in 1..Len(l) : l[n].wf})
AllWellFormed(w, q) == \A k \in QKeys(q) : WellFormedIn(w.lists[k]) = Len(w.lists[k])

Priorities(jobs) == [n \in 1..Len(jobs) |-> jobs[n].priority]

SameStores(w1, w2) ==
    /\ w1.lists = w2.lists
    /\ w1.ttl = w2.ttl
    /\ w1.jobs = w2.jobs
    /\ w1.log = w2.log

\* The last call was dequeue(q, 3) on a store that holds what three enqueue
\* calls for q, one CRITICAL, one HIGH and one NORMAL, have left, and
\* nothing else: three ids issued, three log messages, no earlier dequeue.
ScenarioCHN ==
    /\ last.op = "dequeue"
    /\ last.call.batch = 3
    /\ last.pre.nextId = 4
    /\ last.pre.calls = 0
    /\ Len(last.pre.w.log) = 3
    /\ \A n \in 1..3 : Loads(last.pre.w.log[n].value).type = last.call.q
    /\ {Loads(last.pre.w.log[n].value).priority : n \in 1..3} = {CRITICAL, HIGH, NORMAL}

\* C2 as stated: one CRITICAL, one HIGH and one NORMAL job enqueued in any
\* order for one queue type on an empty store, then dequeue(queueType, 3)
\* returns the three jobs in the order CRITICAL, HIGH, NORMAL.
C2_ThreeInPriorityOrder ==
    ScenarioCHN => Priorities(last.call.jobs) = <<CRITICAL, HIGH, NORMAL>>

\* C2 as amended: the dequeue returns exactly the CRITICAL and the HIGH
\* job, in that order; the NORMAL job never entered the fast store.
C2_FastPathJobsInPriorityOrder ==
    ScenarioCHN =>
        /\ last.call.pc = "done"
        /\ Priorities(last.call.jobs) = <<CRITICAL, HIGH>>
        /\ \A n \in 1..Len(last.call.jobs) :
              \E m \in 1..3 : Loads(last.pre.w.log[m].value) = last.call.jobs[n]
        /\ Depth(last.post, last.call.q) = 0

C2_Witness == ScenarioCHN /\ Len(last.call.jobs) = 2

\* C3 as stated: an enqueue made while the durable log is configured appends
\* exactly one message for the job to the topic of its queue type, whether
\* the fast-queue write of the call succeeded or failed.
C3_LogAppendRegardlessOfFastPath ==
    (/\ last.op = "enqueue"
     /\ last.pre.w.KAFKA_PRODUCER
     /\ last.failAt \in {"none", "lpush", "expire"})
    => /\ Len(last.post.log) = Len(last.pre.w.log) + 1
       /\ Loads(last.post.log[Len(last.post.log)].value) = last.call.job
       /\ last.post.log[Len(last.post.log)].topic = kafka_topics[last.call.q]

\* C7: dequeue returns at most batch_size jobs; from lists holding n entries,
\* all well-formed, it returns min(n, batch_size) of them and leaves the
\* other n - min(n, batch_size) in the lists.
C7_BatchBound ==
    last.op = "dequeue" =>
        LET q == last.call.q
            b == last.call.batch
            n == Depth(last.pre.w, q)
            jobs == last.call.jobs
        IN  /\ Len(jobs) <= b
            /\ AllWellFormed(last.pre.w, q) =>
                  /\ Len(jobs) = Min(n, b)
                  /\ Cardinality(SeqIds(jobs)) = Min(n, b)
                  /\ Depth(last.post, q) = n - Min(n, b)
                  /\ SeqIds(jobs) \cup StoredIds(last.post, q) = StoredIds(last.pre.w, q)

C7_Witness ==
    /\ last.op = "dequeue"
    /\ last.call.batch = 2
    /\ Len(last.pre.w.lists[redis_queues[last.call.q] \o ":critical"]) = 3
    /\ Len(last.call.jobs) = 2
    /\ Len(last.post.lists[redis_queues[last.call.q] \o ":critical"]) = 1

C9_MalformedNotCounted ==
    (/\ last.op = "dequeue"
     /\ \E k \in QKeys(last.call.q) :
           WellFormedIn(last.pre.w.lists[k]) >= last.call.batch)
    => Len(last.call.jobs) = last.call.batch

\* C10: with no store operation rejected, enqueue returns the job id
\* whichever stores are absent; it writes the list entry (HIGH, CRITICAL) and
\* the status record when the fast store is there, the log message when the
\* producer is there, and nothing else.
C10_AbsentStoresAreNoOps ==
    (last.op = "enqueue" /\ last.failAt = "none") =>
        LET job == last.call.job
            pre == last.pre.w
            post == last.post
            key == redis_queues[job.type] \o
                     (IF job.priority = CRITICAL THEN ":critical" ELSE ":high")
        IN  /\ last.call.pc = "returned"
            /\ post.lists =
                  IF post.REDIS /\ job.priority \in {HIGH, CRITICAL}
                  THEN [pre.lists EXCEPT ![key] = <<Dumps(job)>> \o @]
                  ELSE pre.lists
            /\ IF post.KAFKA_PRODUCER
               THEN /\ Len(post.log) = Len(pre.log) + 1
                    /\ SubSeq(post.log, 1, Len(pre.log)) = pre.log
                    /\ post.log[Len(post.log)].value = Dumps(job)
                    /\ post.log[Len(post.log)].topic = kafka_topics[job.type]
               ELSE post.log = pre.log
            /\ IF post.REDIS
               THEN /\ DOMAIN post.jobs = DOMAIN pre.jobs \cup {job.id}
                    /\ Loads(post.jobs[job.id].val).status = "pending"
                    /\ \A i \in DOMAIN pre.jobs : post.jobs[i] = pre.jobs[i]
               ELSE post.jobs = pre.jobs

C10_Witness ==
    /\ last.op = "enqueue"
    /\ last.failAt = "none"
    /\ last.call.pc = "returned"
    /\ last.call.job.priority = HIGH
    /\ ~last.post.REDIS
    /\ last.post.KAFKA_PRODUCER
    /\ Len(last.post.log) = Len(last.pre.w.log) + 1

\* The store operation named by failAt was issued by the call (its store was
\* configured and the call got that far), and the store rejected it.
EnqRejected ==
    \/ last.failAt \in {"lpush", "expire"}
          /\ FastPath(last.call.priority) /\ last.post.REDIS
    \/ last.failAt = "send" /\ last.post.KAFKA_PRODUCER
    \/ last.failAt = "setex" /\ last.post.REDIS

\* What enqueue hands back to the producer: the job id, or nothing when it
\* raised.
EnqResult(c) == IF c.pc = "returned" THEN c.job.id ELSE None

\* C11: when a configured store rejects the push, the TTL refresh, the log
\* send or the status write of an enqueue, the call raises and returns no job
\* id; a call that returns a job id had no write rejected.
C11_RejectedWriteRaises ==
    last.op = "enqueue" =>
        /\ EnqRejected => (last.call.pc = "raised" /\ EnqResult(last.call) = None)
        /\ last.call.pc = "returned" => ~EnqRejected

\* A HIGH enqueue pushed its list entry, then its log send was rejected.
C11_Witness ==
    /\ last.op = "enqueue"
    /\ last.failAt = "send"
    /\ last.call.pc = "raised"
    /\ last.post.lists # last.pre.w.lists
    /\ last.post.log = last.pre.w.log

\* C14 as stated: the log message of a job is keyed by its owner user id, and
\* by 0 when enqueue is called without an owner.
C14_KeyDefaultsToZero ==
    (/\ last.op = "enqueue"
     /\ last.call.pc = "returned"
     /\ last.post.KAFKA_PRODUCER)
    => last.post.log[Len(last.post.log)].key =
          (IF last.call.job.user_id = None THEN Str(0)
           ELSE Str(last.call.job.user_id))

\* The first store operation of a dequeue, get_job_status or
\* update_job_status call was issued to a configured store and rejected.
ReadRejected ==
    /\ \/ last.op = "dequeue" /\ last.failAt = 1
       \/ last.op \in {"get_job_status", "update_job_status"} /\ last.failAt = "get"
    /\ last.post.REDIS

\* C12 as stated: when the fast store rejects an operation of dequeue,
\* get_job_status or update_job_status, the call swallows the error and
\* returns an empty list / absent result instead of raising.
C12_ReadPathSwallowsErrors ==
    ReadRejected =>
        /\ last.call.pc # "raised"
        /\ last.op = "dequeue" => last.call.jobs = <<>>
        /\ last.op = "get_job_status" => last.call.ret = NoStatus

\* C13: with both stores connected and no operation rejected, an enqueue of
\* priority NORMAL or LOW leaves every fast-queue list (and its TTL) as it
\* was, appends exactly one message, for this job, to the log topic of its
\* queue type, and writes a status record that get_job_status returns right
\* after the call: the job with status pending and the given user id.
C13_LogOnlyPath ==
    (/\ last.op = "enqueue"
     /\ last.call.priority \in {NORMAL, LOW}
     /\ last.failAt = "none"
     /\ last.post.REDIS /\ last.post.KAFKA_PRODUCER)
    => LET job == last.call.job
           pre == last.pre.w
           post == last.post
           got == GetJobStatus(job.id, post, TRUE, FALSE)
       IN  /\ last.call.pc = "returned"
           /\ post.lists = pre.lists
           /\ post.ttl = pre.ttl
           /\ post.log = Append(pre.log, [topic |-> kafka_topics[job.type],
                                          key |-> Str(job.user_id),
                                          value |-> Dumps(job)])
           /\ ~got.raised
           /\ got.ret = job
           /\ got.ret.status = "pending"
           /\ got.ret.user_id = last.call.job.user_id
           /\ DOMAIN post.jobs = DOMAIN pre.jobs \cup {job.id}

\* The NORMAL analytics job of user 7: nothing in the fast store, one message
\* on analytics-queue, status pending.
C13_Witness ==
    /\ last.op = "enqueue"
    /\ last.failAt = "none"
    /\ last.call.pc = "returned"
    /\ last.call.job.type = "analytics"
    /\ last.call.job.priority = NORMAL
    /\ last.call.job.user_id = 7
    /\ \A k \in ListKeys : last.post.lists[k] = <<>>
    /\ Len(last.post.log) = 1
    /\ last.post.log[1].topic = "analytics-queue"
    /\ Loads(last.post.jobs[last.call.job.id].val).status = "pending"

\* C15: get_job_status returns absent for every job id that no enqueue has
\* used yet, and for every job id whose status record was last written
\* JOB_TTL or more seconds ago, whatever enqueue, dequeue and
\* update_job_status calls have run.
C15_AbsentWhenUnknownOrExpired ==
    \A id \in 1..(MaxJobs + 1) :
        (\/ id >= nextId
         \/ id \in DOMAIN written /\ now >= written[id] + JOB_TTL)
        => GetJobStatus(id, World, TRUE, FALSE).ret = NoStatus

\* Job 1 was tracked, updated later, and has expired since; the last call
\* was an update of job id 2, which no enqueue has used.
C15_Witness ==
    /\ nextId = 2
    /\ 1 \in DOMAIN written
    /\ written[1] > 0
    /\ now >= written[1] + JOB_TTL
    /\ last.op = "update_job_status"
    /\ last.call.id = 2

\* C16: update_job_status on a job id whose status record is absent (never
\* written, or expired) returns without raising and leaves the status store,
\* the lists, their TTLs and the log exactly as they were.
C16_UpdateOfAbsentIsNoOp ==
    (/\ last.op = "update_job_status"
     /\ last.failAt = "none"
     /\ last.call.id \notin DOMAIN last.pre.w.jobs)
    => /\ last.call.pc = "returned"
       /\ last.post = last.pre.w

\* The record of job 1 was written and has expired when it is updated, with
\* another job waiting in a list.
C16_Witness ==
    /\ last.op = "update_job_status"
    /\ last.call.id = 1
    /\ 1 \in DOMAIN written
    /\ 1 \notin DOMAIN last.pre.w.jobs
    /\ last.call.pc = "returned"
    /\ \E k \in ListKeys : last.post.lists[k] # <<>>

\* C17 as stated: after updates of one job id, in any order and under any
\* interleaving of their GET and SETEX steps, the status and the result of
\* the record are exactly those of the update whose write came last, with
\* nothing left over from an earlier one.
C17_LastWriteWins ==
    (last.op = "status_write" /\ last.id \in DOMAIN redis_jobs)
    => LET rec == Loads(redis_jobs[last.id].val)
       IN  /\ rec.status = last.status
           /\ IF Truthy(last.result)
              THEN "result" \in DOMAIN rec /\ rec.result = last.result
              ELSE "result" \notin DOMAIN rec

\* The status the store holds for a job, and what its handler's outcome
\* calls for.
StoredStatus(id) ==
    IF id \in DOMAIN redis_jobs THEN Loads(redis_jobs[id].val).status ELSE "absent"

Expected(out) == IF out = "ok" THEN "completed" ELSE "failed"

Count(out) == Cardinality({n \in DOMAIN handled : handled[n].out = out})

\* C18: a handler that raises stops neither the batch nor the loop: every
\* finished task of a batch has called mark_job_failed when its handler
\* raised and mark_job_completed when it did not, the status record it found
\* holds that status, and once the worker is back at its dequeue every job it
\* was handed is marked so and counted in processed_count or error_count.
Marked(h) ==
    /\ h.out \in {"ok", "raised"}
    /\ h.mark = Expected(h.out)
    /\ h.tracked => StoredStatus(h.id) = Expected(h.out)

C18_BatchIsolation ==
    /\ \A i \in DOMAIN wrk.tasks : \A n \in DOMAIN handled :
          (wrk.tasks[i].pc = "done" /\ handled[n].id = wrk.tasks[i].job.id)
          => Marked(handled[n])
    /\ wrk.pc \in {"dequeue", "sleep"} =>
          /\ \A n \in DOMAIN handled : Marked(handled[n])
          /\ wrk.processed_count = Count("ok")
          /\ wrk.error_count = Count("raised")

\* One batch of two jobs, the handler of the first raised, the second was
\* completed, and the worker has made its next dequeue.
C18_Witness ==
    /\ Len(handled) = 2
    /\ handled[1].out = "raised"
    /\ handled[2].out = "ok"
    /\ handled[1].tracked /\ handled[2].tracked
    /\ StoredStatus(handled[1].id) = "failed"
    /\ StoredStatus(handled[2].id) = "completed"
    /\ wrk.pc = "sleep"
    /\ calls = 2
    /\ wrk.processed_count = 1
    /\ wrk.error_count = 1

\* C19: a job handed to a worker is in no fast-queue list afterwards, whatever
\* the outcome of its handler, and no job is handed to the worker twice.
C19_FailuresAreTerminal ==
    /\ \A n \in DOMAIN handled : \A k \in ListKeys : handled[n].id \notin ListIds(k)
    /\ \A m, n \in DOMAIN handled : m # n => handled[m].id # handled[n].id
    /\ Len(handled) <= nextId - 1

\* A job with retry_count 3 failed, and the next dequeue found nothing.
C19_Witness ==
    /\ Len(handled) = 1
    /\ handled[1].out = "raised"
    /\ StoredStatus(handled[1].id) = "failed"
    /\ Loads(redis_jobs[handled[1].id].val).retry_count > 0
    /\ wrk.pc = "sleep"
    /\ calls = 2

\* The committed rows for the unordered pair {x, y}.
PairRows(x, y) ==
    {i \in DOMAIN friendships :
        {friendships[i].user_id, friendships[i].friend_id} = {x, y}}

\* C20: create_friendship is idempotent on the unordered pair: whatever
\* calls (A,B) and (B,A) were made, one after the other or interleaved, no
\* call raises, the table never holds two records for one unordered pair, and
\* once a call has returned exactly one record exists for its pair, which is
\* the record the call returned.
C20_IdempotentOnUnorderedPair ==
    /\ \A f \in Callers : fcalls[f].pc # "raised"
    /\ \A x \in Users, y \in Users : Cardinality(PairRows(x, y)) <= 1
    /\ \A f \in Callers :
          fcalls[f].pc = "returned" =>
             /\ Cardinality(PairRows(fcalls[f].user_a, fcalls[f].user_b)) = 1
             /\ fcalls[f].ret.id \in PairRows(fcalls[f].user_a, fcalls[f].user_b)

\* Both callers returned, one called with (1,2) and the other with (2,1),
\* the second insert was rejected by the constraint, one record exists.
C20_Witness ==
    /\ fcalls["route"].pc = "returned"
    /\ fcalls["worker"].pc = "returned"
    /\ fcalls["route"].user_a = 1 /\ fcalls["route"].user_b = 2
    /\ fcalls["worker"].user_a = 2 /\ fcalls["worker"].user_b = 1
    /\ fcalls["worker"].integrity_error
    /\ Cardinality(PairRows(1, 2)) = 1
    /\ fcalls["worker"].ret = fcalls["route"].ret

\* C21: an absent store never makes a worker job fail: a friend-request or
\* message job whose database collaborators succeed ends marked completed
\* with the cache store and the log producer absent.
C21_AbsentStoreNeverFailsJob ==
    \A s \in Slots :
       (hnd[s].pc = "done" /\ hnd[s].kind \in {"friend_requests", "messages"}) =>
          hnd[s].mark = "completed"

\* What does hold: the cache operations never fail a job.
C21_CacheNeverFailsJob ==
    \A s \in Slots :
       (hnd[s].pc = "done" /\ hnd[s].kind \in {"user_activity", "analytics"}) =>
          hnd[s].mark = "completed"

\* enqueue returned the id of job id to its producer.
Accepted(id) ==
    \E p \in Producers : enq[p].pc = "returned" /\ enq[p].job.id = id

\* Job id was handed to the worker and marked completed or failed.
Finished(id) ==
    \E n \in DOMAIN handled :
       handled[n].id = id /\ handled[n].mark \in {"completed", "failed"}

\* C22: eventual delivery: every job accepted by enqueue, of any priority, is
\* eventually handed to the worker of its queue type and marked completed or
\* failed, provided the worker keeps running.
C22_EventualDelivery ==
    \A id \in 1..MaxJobs : Accepted(id) ~> Finished(id)

\* What does hold: no job of the log-only path is ever handed to the worker.
C22_LogOnlyNeverHandled ==
    \A n \in DOMAIN handled :
       \A i \in DOMAIN kafka_log :
          Loads(kafka_log[i].value).id = handled[n].id =>
             Loads(kafka_log[i].value).priority \in {HIGH, CRITICAL}

\* The list of tier t of the queue type a running dequeue call reads.
TierList(c, t) == redis_lists[redis_queues[deq[c].q] \o Suffixes[t]]

\* C23: strict precedence at every pop: whenever a dequeue call pops a job
\* from the high list the critical list of the queue type is empty at that
\* moment, and whenever it pops from the normal list both higher lists are
\* empty, under every interleaving with other enqueue and dequeue calls.
C23_StrictPrecedenceAtEveryPop ==
    [][\A c \in Consumers :
          (deq[c].pc = "pop" /\ deq'[c] # deq[c] /\
           TierList(c, deq[c].tier) # <<>>) =>
             \A t \in 1..(deq[c].tier - 1) : TierList(c, t) = <<>>]_vars

\* The enqueue call of job id has returned.
EnqueueCompleted(id) ==
    /\ id < nextId
    /\ \A p \in Producers : enq[p].job.id = id => enq[p].pc = "returned"

\* C24: a HIGH or CRITICAL job whose enqueue has completed and which the
\* worker has dequeued and processed to the end has a status record that
\* says completed or failed, never pending, under every interleaving of the
\* enqueue steps with the worker's dequeue and status update.
C24_ProcessedNeverStaysPending ==
    \A n \in DOMAIN handled :
       (handled[n].mark \in {"completed", "failed"} /\
        EnqueueCompleted(handled[n].id)) =>
          StoredStatus(handled[n].id) \in {"completed", "failed"}

\* C25: after stop_all has returned, whatever point of its loop each worker
\* was at, every worker's running flag is false, every worker task has
\* ended, and no worker has sent a dequeue or a status update since.
C25_StoppedMeansStopped ==
    mgr.pc = "stopped" =>
       /\ \A w \in LifeWorkers : ~life[w].running /\ Terminated(life[w])
       /\ ~mgr.late

\* stop_all returned after it found one worker in the middle of a batch and
\* the other not yet scheduled.
C25_Witness ==
    /\ mgr.pc = "stopped"
    /\ mgr.at_stop["friend_requests"] = "gather"
    /\ mgr.at_stop["messages"] = "unscheduled"
    /\ \A w \in LifeWorkers : life[w].pc = "finished"

\* C26: startup of a backing-store client ends after at most 3 connection
\* attempts and never raises; when it returns after an attempt succeeded the
\* handle is set and the ready flag true, when it returns after 3 failures
\* the handle is absent and the flag false; and in every reachable state a
\* true ready flag implies a handle that is not absent.
C26_StartupBoundedAndConsistent ==
    /\ \A b \in Booters :
          /\ boot.st[b].attempt < max_retries
          /\ boot.st[b].pc # "raised"
          /\ boot.st[b].pc = "returned" =>
                IF boot.st[b].ok
                THEN boot.st[b].ret.handle # NoHandle /\ boot.st[b].ret.ready
                ELSE boot.st[b].ret.handle = NoHandle /\ ~boot.st[b].ret.ready
    /\ boot.ready => boot.handle # NoHandle

\* What does hold: at most 3 attempts, no raise, and a startup that gave up
\* leaves the handle absent and the flag false.
C26_BoundedAndFailureClears ==
    \A b \in Booters :
       /\ boot.st[b].attempt < max_retries
       /\ boot.st[b].pc # "raised"
       /\ (boot.st[b].pc = "returned" /\ ~boot.st[b].ok) =>
             boot.st[b].ret.handle = NoHandle /\ ~boot.st[b].ret.ready

NormalKeys == {redis_queues[q] \o ":normal" : q \in QueueType}

\* C27: no operation of the queue manager pushes to a ":normal" list: every
\* ":normal" list is empty in every reachable state, get_queue_stats reports
\* normal = 0 for every queue type, and every job a dequeue returns has
\* priority HIGH or CRITICAL.
C27_NormalListsStayEmpty ==
    /\ \A k \in NormalKeys : redis_lists[k] = <<>>
    /\ last.op = "get_queue_stats" => \A q \in QueueType : last.ret[q].normal = 0
    /\ last.op = "dequeue" =>
          \A n \in 1..Len(last.call.jobs) :
             last.call.jobs[n].priority \in {HIGH, CRITICAL}

\* A NORMAL job and a HIGH job of one queue type were accepted, and a
\* dequeue of that type returned the HIGH job alone.
C27_Witness ==
    /\ last.op = "dequeue"
    /\ Len(last.call.jobs) = 1
    /\ last.call.batch = 2
    /\ last.call.jobs[1].priority = HIGH
    /\ \E i \in DOMAIN kafka_log :
          /\ Loads(kafka_log[i].value).priority = NORMAL
          /\ Loads(kafka_log[i].value).type = last.call.jobs[1].type

\* C28: enqueue is all-or-nothing on error: when an enqueue call raises, its
\* job is in no fast-queue list and has no status record.
C28_EnqueueAllOrNothing ==
    (last.op = "enqueue" /\ last.call.pc = "raised") =>
       /\ \A k \in ListKeys : last.call.job.id \notin EntryIds(last.post.lists[k])
       /\ last.call.job.id \notin DOMAIN last.post.jobs

\* What does hold: a call that raised has written no status record.
C28_RaisedLeavesNoStatus ==
    (last.op = "enqueue" /\ last.call.pc = "raised") =>
       last.call.job.id \notin DOMAIN last.post.jobs

\* C29: an accept call by an authenticated user who is not the recipient of
\* the request is answered 404 and leaves the friend-request record, the
\* friendships and the queues as they were.
C29_OnlyRecipientAccepts ==
    (/\ social.last.op = "accept"
     /\ social.last.request_id \in DOMAIN social.last.pre.reqs
     /\ social.last.pre.reqs[social.last.request_id].to_user
           # social.last.current_user) =>
       /\ social.last.status = 404
       /\ social.last.post.reqs = social.last.pre.reqs
       /\ social.last.post.rows = social.last.pre.rows
       /\ social.last.post.enqueued = social.last.pre.enqueued

\* What does hold: such a call is answered 404 and leaves the friendships and
\* the queues as they were; and an unknown request id changes nothing.
C29_StrangerGets404 ==
    /\ (/\ social.last.op = "accept"
        /\ social.last.request_id \in DOMAIN social.last.pre.reqs
        /\ social.last.pre.reqs[social.last.request_id].to_user
              # social.last.current_user) =>
          /\ social.last.status = 404
          /\ social.last.post.rows = social.last.pre.rows
          /\ social.last.post.enqueued = social.last.pre.enqueued
    /\ (/\ social.last.op = "accept"
        /\ social.last.request_id \notin DOMAIN social.last.pre.reqs) =>
          /\ social.last.status = 404
          /\ social.last.post = social.last.pre

\* C30: get_list(k) after set_list(k, xs) returns xs in the same order, and
\* after the notification worker's rebuild the user's list is the processed
\* notifications, newest first, at most 100 of them.
C30_ListRoundTrip ==
    ncache.last.op \in {"round_trip", "rebuild"} =>
       /\ ncache.last.got = ncache.last.xs
       /\ Len(ncache.last.got) <= KEEP

\* What does hold: through the cache module's own handle every read is the
\* empty list and the store is never written; against a connected handle the
\* read is the written list in reverse order.
C30_ReadsEmptyOrReversed ==
    ncache.last.op \in {"round_trip", "rebuild"} =>
       IF ncache.last.conn
       THEN /\ Len(ncache.last.got) = Len(ncache.last.xs)
            /\ \A i \in 1..Len(ncache.last.xs) :
                  ncache.last.got[i]
                     = ncache.last.xs[Len(ncache.last.xs) + 1 - i]
       ELSE ncache.last.got = <<>>

TypeOK ==
    /\ REDIS \in BOOLEAN
    /\ KAFKA_PRODUCER \in BOOLEAN
    /\ nextId \in 1..(MaxSeqJobs + 1)
    /\ \A k \in ListKeys : Len(redis_lists[k]) <= MaxSeqJobs
    /\ \A k \in ListKeys : redis_lists[k] = <<>> => redis_ttl[k] = NoTTL
====
